---- MODULE Spec2Model ----
(***************************************************************************)
(* StudyProBot: the order wizard, the admin workflow and the payment       *)
(* workflow of bot.py / admin.py over the entity store of database.py.     *)
(*                                                                         *)
(* One action per registered handler.  An update is dispatched the way     *)
(* main() registers the handlers: all handlers live in one group, and the  *)
(* first handler whose filter or pattern matches gets the update.          *)
(*                                                                         *)
(* The SQLAlchemy session is one shared unit of work (database.init_db):   *)
(* `mem` is what the session's objects hold, `db` is what is committed.    *)
(* commit() either succeeds (db becomes mem) or raises (db unchanged);     *)
(* rollback() discards the pending changes (mem becomes db).  A commit     *)
(* that raises while flushing rolls the session back by itself, one that   *)
(* raises later leaves the change with the session's objects: a handler    *)
(* that does not call rollback() ends in either of the two.                *)
(***************************************************************************)
EXTENDS Integers, Sequences, FiniteSets, TLC

VARIABLES
    db,          \* committed rows: [users, orders, payments, messages]
    mem,         \* the session's view of the same rows (pending changes)
    user_data,   \* context.user_data, one dict per Telegram user
    orderConv,   \* state of order_conv per conversation key (chat, user)
    adminConv,   \* state of admin_conv per conversation key (chat, user)
    files,       \* attachments in files/: path -> "complete" | "partial"
    proofs,      \* payment proofs in payment_proofs/, likewise
    ev,          \* the update handled last and what its handler answered
    sent,        \* messages delivered to other chats by that handler
    hist         \* history: the price notifications delivered so far, and the
                 \* cancel input the running wizard has received

vars == <<db, mem, user_data, orderConv, adminConv, files, proofs, ev, sent, hist>>

-----------------------------------------------------------------------------
(* Bounds of the model *)

MaxOrders == 1
MaxPayments == 2
MaxMessages == 1
MaxUsers == 3
MaxFiles == 2
MaxProofs == 1

-----------------------------------------------------------------------------
(* Configuration and enumerations *)

ADMIN_ID == 99

None == "None"

Customers == {1, 2}

Callers == Customers \cup {ADMIN_ID}

\* Conversation keys: the default per_chat/per_user key (chat id, user id);
\* in a private chat the chat id is the user's id.
Keys == {<<c, c>> : c \in Callers}

PENDING == "pending"
PAID == "paid"
IN_PROGRESS == "in_progress"
COMPLETED == "completed"
CANCELLED == "cancelled"

OrderStatus == {PENDING, PAID, IN_PROGRESS, COMPLETED, CANCELLED}

PaymentStatus == {"pending", "completed", "failed", "refunded"}

BASE_PRICES ==
    [coursework |-> 1000, essay |-> 500, control |-> 700, translation |-> 150,
     presentation |-> 300, diploma |-> 3000, tasks |-> 400]

get_base_price(work_type) ==
    IF work_type \in DOMAIN BASE_PRICES THEN BASE_PRICES[work_type] ELSE 0

\* The conversation states of states.py, by name.
END == "END"
WizardStates ==
    {"WAITING_WORK_TYPE", "WAITING_SUBJECT", "WAITING_VOLUME", "WAITING_DEADLINE",
     "WAITING_FILE", "WAITING_COMMENT", "WAITING_CONTACT"}
AdminStates ==
    {"WAITING_BROADCAST", "WAITING_REVIEW_RESPONSE", "WAITING_USER_MESSAGE",
     "WAITING_PRICE"}

-----------------------------------------------------------------------------
(* Text conversions *)

\* Decimal numerals of the ids used in callback data.
NumTok == <<"1", "2", "3", "4", "5">>

str(n) == NumTok[n]

IsInt(tok) == \E n \in DOMAIN NumTok : NumTok[n] = tok

\* int(tok); the caller checks IsInt first (int raises ValueError otherwise).
int(tok) == CHOOSE n \in DOMAIN NumTok : NumTok[n] = tok

\* float('nan'): a float that is no number; an integer no amount of the model
\* takes stands for it.
NaN == -1000000

\* x <= y on floats: every comparison with NaN is False.
le(x, y) == x # NaN /\ y # NaN /\ x <= y

\* float(text) of the price texts the administrator may type.
FloatTable == [t \in {"0", "-5", "600", "nan"} |->
                 CASE t = "0" -> 0 [] t = "-5" -> -5 [] t = "600" -> 600
                   [] t = "nan" -> NaN]

IsFloat(text) == text \in DOMAIN FloatTable

float(text) == FloatTable[text]

PriceTexts == {"abc", "0", "600"}

-----------------------------------------------------------------------------
(* The session: queries read committed rows through the identity map *)

query_Order(order_id) ==
    IF order_id \in DOMAIN db.orders THEN order_id ELSE 0

query_User_by_id(user_id) ==
    IF user_id \in DOMAIN db.users THEN user_id ELSE 0

query_User_by_telegram_id(telegram_id) ==
    LET hits == {i \in DOMAIN db.users : db.users[i] = telegram_id}
    IN  IF hits = {} THEN 0 ELSE CHOOSE i \in hits : \A j \in hits : i <= j

\* session.query(Payment).filter_by(order_id=...).first(): the row with the
\* lowest id among the Order's payments (SQLite walks the order_id index).
PaymentsOf(order_id) ==
    {i \in DOMAIN db.payments : db.payments[i].order_id = order_id}

query_Message(message_id) ==
    IF message_id \in DOMAIN db.messages THEN message_id ELSE 0

first_Payment(order_id) ==
    LET hits == PaymentsOf(order_id)
    IN  IF hits = {} THEN 0 ELSE CHOOSE i \in hits : \A j \in hits : i <= j

-----------------------------------------------------------------------------
(* Callback data: the buttons the bot puts on its keyboards, split at '_' *)

\* The ids a button may carry: those of the Orders and one beyond them, the
\* id of an Order that does not exist.
OrderIds == 1..(MaxOrders + 1)

\* The categories a work_type_ button may carry: two of the price table and
\* one the table has no price for (the pattern admits any suffix).
WorkTypes == {"essay", "coursework", "other"}

\* The ids on the reply buttons under the listed Messages and Reviews.
MessageIds == 1..(MaxMessages + 1)
ReviewIds == {1}

CallbackData ==
    {<<"create", "order">>, <<"cancel">>, <<"admin", "stats">>,
     <<"admin", "new", "orders">>, <<"admin", "broadcast">>}
    \cup {<<"work", "type", w>> : w \in WorkTypes}
    \cup {<<"admin", "accept", str(i)>> : i \in OrderIds}
    \cup {<<"admin", "reject", str(i)>> : i \in OrderIds}
    \cup {<<"pay", str(i)>> : i \in OrderIds}
    \cup {<<"admin", "confirm", "payment", str(i)>> : i \in OrderIds}
    \cup {<<"admin", "reject", "payment", str(i)>> : i \in OrderIds}
    \cup {<<"admin", "message", "response", str(i)>> : i \in MessageIds}
    \cup {<<"admin", "review", "response", str(i)>> : i \in ReviewIds}

-----------------------------------------------------------------------------
(* Dispatch *)

IsPrefix(p, s) == Len(p) <= Len(s) /\ SubSeq(s, 1, Len(p)) = p

\* CallbackQueryHandler(pattern): re.match of '^a_b_' (prefix, something may
\* follow the last underscore) or of '^a_b$' (the whole data).
Matches(h, data) ==
    IF h.exact THEN data = h.pat ELSE Len(data) > Len(h.pat) /\ IsPrefix(h.pat, data)

Pat(name, pat, exact) == [name |-> name, pat |-> pat, exact |-> exact]

\* The callback handlers registered after order_conv, in main()'s order;
\* "admin_conv" stands for the conversation handler's entry point.
CallbackHandlers ==
    << Pat("price", <<"price">>, TRUE),
       Pat("orders", <<"orders">>, TRUE),
       Pat("support", <<"support">>, TRUE),
       Pat("reviews", <<"reviews">>, TRUE),
       Pat("go_back", <<"back">>, TRUE),
       Pat("admin_conv", <<"admin", "accept">>, FALSE),
       Pat("admin_stats", <<"admin", "stats">>, TRUE),
       Pat("admin_new_orders", <<"admin", "new", "orders">>, TRUE),
       Pat("admin_reject_order", <<"admin", "reject">>, FALSE),
       Pat("admin_broadcast", <<"admin", "broadcast">>, TRUE),
       Pat("admin_reviews", <<"admin", "reviews">>, TRUE),
       Pat("admin_review_response", <<"admin", "review", "response">>, FALSE),
       Pat("admin_messages", <<"admin", "messages">>, TRUE),
       Pat("admin_message_response", <<"admin", "message", "response">>, FALSE),
       Pat("handle_payment", <<"pay">>, FALSE),
       Pat("admin_confirm_payment", <<"admin", "confirm", "payment">>, FALSE),
       Pat("admin_reject_payment", <<"admin", "reject", "payment">>, FALSE) >>

\* order_conv for a callback query: the entry point outside a conversation,
\* the state's handlers inside one (allow_reentry is off; the only fallback
\* is the /cancel command, which no callback query matches).
WorkTypeData ==
    {data \in CallbackData : Matches(Pat("", <<"work", "type">>, FALSE), data)}

OrderConvCallback(k, data) ==
    IF orderConv[k] = END
      THEN IF data = <<"create", "order">> THEN "create_order" ELSE None
      ELSE IF orderConv[k] = "WAITING_WORK_TYPE" /\ data \in WorkTypeData
             THEN "handle_work_type"
             ELSE None

AcceptData == {data \in CallbackData : Matches(CallbackHandlers[6], data)}

\* admin_conv for a callback query: its entry point, outside a conversation only.
AdminConvCallback(k, data) ==
    IF adminConv[k] = END /\ data \in AcceptData
      THEN "admin_accept_order" ELSE None

\* The plain handlers whose pattern matches the data, whatever the state.
PatternHits ==
    [data \in CallbackData |->
       {i \in DOMAIN CallbackHandlers :
           CallbackHandlers[i].name # "admin_conv" /\ Matches(CallbackHandlers[i], data)}]

RouteCallback(k, data) ==
    IF OrderConvCallback(k, data) # None THEN OrderConvCallback(k, data)
    ELSE LET hits == PatternHits[data]
                     \cup (IF AdminConvCallback(k, data) # None THEN {6} ELSE {})
         IN  IF hits = {} THEN "unhandled"
             ELSE LET i == CHOOSE i \in hits : \A j \in hits : i <= j
                  IN  IF CallbackHandlers[i].name = "admin_conv"
                        THEN "admin_accept_order"
                        ELSE CallbackHandlers[i].name

WizardTextHandler ==
    [WAITING_WORK_TYPE |-> "handle_work_type", WAITING_SUBJECT |-> "handle_subject",
     WAITING_VOLUME |-> "handle_volume", WAITING_DEADLINE |-> "handle_deadline",
     WAITING_FILE |-> "handle_file", WAITING_COMMENT |-> "handle_comment",
     WAITING_CONTACT |-> "handle_contact"]

AdminTextHandler ==
    [WAITING_BROADCAST |-> "handle_broadcast",
     WAITING_REVIEW_RESPONSE |-> "handle_review_response",
     WAITING_USER_MESSAGE |-> "handle_user_message",
     WAITING_PRICE |-> "handle_price_setting"]

\* A text message that is no command.
RouteText(k) ==
    IF orderConv[k] # END THEN WizardTextHandler[orderConv[k]]
    ELSE IF adminConv[k] # END THEN AdminTextHandler[adminConv[k]]
    ELSE "handle_support_message"

\* A photo or a document.
RouteFile(k) ==
    IF orderConv[k] = "WAITING_FILE" THEN "handle_file" ELSE "handle_payment_proof"

\* A command: /cancel is order_conv's fallback, /admin is admin_conv's entry
\* point and fallback.
RouteCommand(k, cmd) ==
    IF cmd = "cancel"
      THEN IF orderConv[k] # END THEN "cancel" ELSE "unhandled"
      ELSE IF cmd = "admin" THEN "admin_panel" ELSE "unhandled"

-----------------------------------------------------------------------------
(* What a handler leaves behind *)

Emit(h, k, ret, reply, msgs) ==
    /\ ev' = [h |-> h, caller |-> k[2], ret |-> ret, reply |-> reply]
    /\ sent' = msgs

Msg(to, kind, order, price) ==
    [to |-> to, kind |-> kind, order |-> order, price |-> price]

\* ConversationHandler: a returned state becomes the key's state, END ends the
\* conversation; a handler that raises or returns None leaves the state alone.
ConvAfter(conv, k, ret) ==
    IF ret \in {"raised", None} THEN conv ELSE [conv EXCEPT ![k] = ret]

TelegramIdOf(user_id) == mem.users[user_id]

-----------------------------------------------------------------------------
(* Handlers are written as functions from the state and the update to what  *)
(* they leave behind; Apply turns such a result into the step.              *)

\* or_mem: the other views the session may be left with (after a commit that
\* raised and no rollback() by the handler).
Keep(k) ==
    [db |-> db, mem |-> mem, or_mem |-> {}, ud |-> user_data[k[2]], files |-> files,
     proofs |-> proofs, hist |-> hist, ret |-> None, reply |-> None, msgs |-> {}]

Apply(h, k, conv, result) ==
  \E r \in {result} :
    /\ db' = r.db
    /\ mem' \in {r.mem} \cup r.or_mem
    /\ user_data' = [user_data EXCEPT ![k[2]] = r.ud]
    /\ files' = r.files
    /\ proofs' = r.proofs
    /\ hist' = r.hist
    /\ orderConv' = IF conv = "order_conv" THEN ConvAfter(orderConv, k, r.ret) ELSE orderConv
    /\ adminConv' = IF conv = "admin_conv" THEN ConvAfter(adminConv, k, r.ret) ELSE adminConv
    /\ Emit(h, k, r.ret, r.reply, r.msgs)

\* "if update.effective_user.id != context.bot_data['admin_id']": the reply
\* and the return of every gated admin handler.
NoAccess(k) == [Keep(k) EXCEPT !.ret = END, !.reply = "no_access"]

-----------------------------------------------------------------------------
(* admin.py: accept, price setting, reject *)

admin_accept_order(k, data) ==
    IF k[2] # ADMIN_ID THEN NoAccess(k)
    ELSE IF ~IsInt(data[3]) THEN [Keep(k) EXCEPT !.ret = "raised"]
    ELSE IF query_Order(int(data[3])) = 0
      THEN [Keep(k) EXCEPT !.ret = END, !.reply = "order_not_found"]
      ELSE [Keep(k) EXCEPT !.ud.current_order_id = int(data[3]),
                           !.ret = "WAITING_PRICE", !.reply = "price_prompt"]

\* A price setting that writes and commits the price before it notifies.
commit_then_notify(k, order, user, price, sendOk, commitOk, replyOk) ==
    LET m1 == [mem EXCEPT !.orders[order].price = price]
        delivered == commitOk /\ sendOk /\ TelegramIdOf(user) # 0
        confirmed == delivered /\ replyOk
    IN  [Keep(k) EXCEPT
           !.mem = m1,
           !.db = IF commitOk THEN m1 ELSE db,
           !.msgs = IF delivered
                      THEN {Msg(TelegramIdOf(user), "price", order, price)} ELSE {},
           !.hist = IF delivered
                      THEN [hist EXCEPT !.notified = @ \cup {<<order, price>>}] ELSE hist,
           !.ud = IF confirmed
                    THEN [user_data[k[2]] EXCEPT !.current_order_id = 0]
                    ELSE user_data[k[2]],
           !.reply = IF confirmed THEN "price_set" ELSE "notify_failed",
           !.ret = END]

\* The inner try of handle_price_setting: send the notification, and only
\* then assign the price, commit, confirm to the admin and forget the order.
\* Whatever raises inside it is reported by the inner except, which returns
\* END and rolls nothing back.
notify_then_commit(k, order, user, price, sendOk, commitOk, replyOk) ==
    LET delivered == sendOk /\ TelegramIdOf(user) # 0
        m1 == IF delivered THEN [mem EXCEPT !.orders[order].price = price] ELSE mem
        committed == delivered /\ commitOk
        confirmed == committed /\ replyOk
    IN  [Keep(k) EXCEPT
           !.mem = m1,
           !.or_mem = IF delivered /\ ~commitOk THEN {db} ELSE {},
           !.db = IF committed THEN m1 ELSE db,
           !.msgs = IF delivered
                      THEN {Msg(TelegramIdOf(user), "price", order, price)} ELSE {},
           !.hist = IF delivered
                      THEN [hist EXCEPT !.notified = @ \cup {<<order, price>>}] ELSE hist,
           !.ud = IF confirmed
                    THEN [user_data[k[2]] EXCEPT !.current_order_id = 0]
                    ELSE user_data[k[2]],
           !.reply = IF confirmed THEN "price_set" ELSE "notify_failed",
           !.ret = END]

handle_price_setting(k, text, sendOk, commitOk, replyOk) ==
    LET order_id == user_data[k[2]].current_order_id
        order == query_Order(order_id)
        user == IF order = 0 THEN 0 ELSE query_User_by_id(mem.orders[order].user_id)
    IN  IF k[2] # ADMIN_ID THEN NoAccess(k)
        ELSE IF order_id = 0
          THEN [Keep(k) EXCEPT !.ret = END, !.reply = "no_current_order"]
        ELSE IF ~IsFloat(text)
          THEN [Keep(k) EXCEPT !.ret = "WAITING_PRICE", !.reply = "bad_amount"]
        ELSE IF le(float(text), 0)
          THEN [Keep(k) EXCEPT !.ret = "WAITING_PRICE", !.reply = "must_be_positive"]
        ELSE IF order = 0
          THEN [Keep(k) EXCEPT !.ret = END, !.reply = "order_not_found"]
        ELSE IF user = 0
          THEN [Keep(k) EXCEPT !.ret = END, !.reply = "user_not_found"]
        ELSE notify_then_commit(k, order, user, float(text), sendOk, commitOk, replyOk)

\* A rejection that notifies the customer before it commits: a failed
\* notification reaches the except clause with nothing committed.
notify_then_cancel(k, order, sendOk, commitOk) ==
    LET m1 == [mem EXCEPT !.orders[order].status = CANCELLED]
        user == query_User_by_id(mem.orders[order].user_id)
        delivered == sendOk /\ user # 0
        done == delivered /\ commitOk
    IN  [Keep(k) EXCEPT
           !.db = IF done THEN m1 ELSE db,
           !.mem = IF done THEN m1 ELSE db,
           !.msgs = IF delivered
                      THEN {Msg(TelegramIdOf(user), "order_rejected", order, 0)} ELSE {},
           !.reply = IF done THEN "order_rejected" ELSE "error",
           !.ret = END]

\* A rejection that also takes the price off the Order.
cancel_and_clear_price(k, order, sendOk, commitOk) ==
    LET m1 == [mem EXCEPT !.orders[order].status = CANCELLED, !.orders[order].price = 0]
        user == query_User_by_id(mem.orders[order].user_id)
        delivered == commitOk /\ sendOk /\ user # 0
        d1 == IF commitOk THEN m1 ELSE db
    IN  [Keep(k) EXCEPT
           !.db = d1,
           !.mem = IF delivered THEN m1 ELSE d1,
           !.msgs = IF delivered
                      THEN {Msg(TelegramIdOf(user), "order_rejected", order, 0)} ELSE {},
           !.reply = IF delivered THEN "order_rejected" ELSE "error",
           !.ret = END]

\* The try block of admin_reject_order for an Order that exists: the status
\* is committed first, the customer is told afterwards; the except clause
\* rolls the session back and reports an error.
cancel_then_notify(k, order, sendOk, commitOk) ==
    LET m1 == [mem EXCEPT !.orders[order].status = CANCELLED]
        user == query_User_by_id(mem.orders[order].user_id)
        delivered == commitOk /\ sendOk /\ user # 0
        d1 == IF commitOk THEN m1 ELSE db
    IN  [Keep(k) EXCEPT
           !.db = d1,
           !.mem = IF delivered THEN m1 ELSE d1,
           !.msgs = IF delivered
                      THEN {Msg(TelegramIdOf(user), "order_rejected", order, 0)} ELSE {},
           !.reply = IF delivered THEN "order_rejected" ELSE "error",
           !.ret = END]

\* A rejection that takes the id from the last part of the callback data.
reject_order_of_last_token(k, data, sendOk, commitOk) ==
    IF k[2] # ADMIN_ID THEN NoAccess(k)
    ELSE IF ~IsInt(data[Len(data)]) THEN [Keep(k) EXCEPT !.ret = "raised"]
    ELSE IF query_Order(int(data[Len(data)])) = 0
      THEN [Keep(k) EXCEPT !.ret = END, !.reply = "order_not_found"]
      ELSE cancel_then_notify(k, int(data[Len(data)]), sendOk, commitOk)

\* order_id = int(query.data.split('_')[2]) comes before the try block: a
\* third part that is no number raises ValueError out of the handler.
admin_reject_order(k, data, sendOk, commitOk) ==
    IF k[2] # ADMIN_ID THEN NoAccess(k)
    ELSE IF ~IsInt(data[3]) THEN [Keep(k) EXCEPT !.ret = "raised"]
    ELSE IF query_Order(int(data[3])) = 0
      THEN [Keep(k) EXCEPT !.ret = END, !.reply = "order_not_found"]
      ELSE cancel_then_notify(k, int(data[3]), sendOk, commitOk)

-----------------------------------------------------------------------------
(* bot.py: the payment workflow *)

Payment(user_id, order_id, amount) ==
    [user_id |-> user_id, order_id |-> order_id, amount |-> amount,
     status |-> "pending", proof_file |-> 0]

\* Checks that let any caller pay for any pending Order.
payment_refusal_for_strangers(k, order) ==
    IF order = 0 THEN "order_not_found"
    ELSE IF mem.orders[order].status # PENDING THEN "not_payable"
    ELSE None

\* The checks of handle_payment before it creates the Payment: the Order
\* exists, belongs to the caller and is pending.
payment_refusal(k, order) ==
    LET user == query_User_by_telegram_id(k[2])
    IN  IF order = 0 THEN "order_not_found"
        ELSE IF user = 0 \/ mem.orders[order].user_id # user THEN "no_access_to_order"
        ELSE IF mem.orders[order].status # PENDING THEN "not_payable"
        ELSE None

\* A payment trigger that leaves an Order that is already active in place.
handle_payment_keeping_active(k, data) ==
    IF ~IsInt(data[2]) THEN [Keep(k) EXCEPT !.ret = END, !.reply = "error"]
    ELSE LET order == query_Order(int(data[2]))
             refusal == payment_refusal(k, order)
             m1 == [mem EXCEPT !.payments =
                      Append(@, Payment(query_User_by_telegram_id(k[2]), order,
                                        mem.orders[order].price))]
         IN  IF refusal # None THEN [Keep(k) EXCEPT !.reply = refusal]
             ELSE [Keep(k) EXCEPT !.db = m1, !.mem = m1,
                                  !.ud.current_payment_order_id =
                                     IF @ = 0 THEN order ELSE @,
                                  !.ret = "WAITING_PAYMENT_PROOF",
                                  !.reply = "payment_instructions"]

handle_payment(k, data) ==
    IF ~IsInt(data[2]) THEN [Keep(k) EXCEPT !.ret = END, !.reply = "error"]
    ELSE LET order == query_Order(int(data[2]))
             refusal == payment_refusal(k, order)
             m1 == [mem EXCEPT !.payments =
                      Append(@, Payment(query_User_by_telegram_id(k[2]), order,
                                        mem.orders[order].price))]
         IN  IF refusal # None THEN [Keep(k) EXCEPT !.reply = refusal]
             ELSE [Keep(k) EXCEPT !.db = m1, !.mem = m1,
                                  !.ud.current_payment_order_id = order,
                                  !.ret = "WAITING_PAYMENT_PROOF",
                                  !.reply = "payment_instructions"]

\* A photo and a document are stored the same way.  A failed download raises
\* out of the try block; whatever download_to_drive wrote by then stays on
\* disk (leftPartial).  The proof goes to the first Payment of the Order.
handle_payment_proof(k, dlOk, leftPartial, sendOk) ==
    LET order_id == user_data[k[2]].current_payment_order_id
        order == query_Order(order_id)
        user == query_User_by_telegram_id(k[2])
        path == Len(proofs) + 1
        payment == first_Payment(order)
        m1 == IF payment = 0 THEN mem
              ELSE [mem EXCEPT !.payments[payment].proof_file = path]
    IN  IF order_id = 0
          THEN [Keep(k) EXCEPT !.ret = END, !.reply = "no_active_payment"]
        ELSE IF order = 0 \/ user = 0 \/ mem.orders[order].user_id # user
          THEN [Keep(k) EXCEPT !.ret = END, !.reply = "no_access_to_order"]
        ELSE IF ~dlOk
          THEN [Keep(k) EXCEPT
                  !.proofs = IF leftPartial THEN Append(proofs, "partial") ELSE proofs,
                  !.ret = END, !.reply = "error"]
        ELSE [Keep(k) EXCEPT
                !.proofs = Append(proofs, "complete"),
                !.mem = m1,
                !.db = IF payment = 0 THEN db ELSE m1,
                !.msgs = IF sendOk
                           THEN {Msg(ADMIN_ID, "payment_proof", order, mem.orders[order].price)}
                           ELSE {},
                !.ud = IF sendOk
                         THEN [user_data[k[2]] EXCEPT !.current_payment_order_id = 0]
                         ELSE user_data[k[2]],
                !.reply = IF sendOk THEN "proof_received" ELSE "error",
                !.ret = END]

\* A confirmation that marks the Order paid and leaves its Payment alone.
confirm_order_only(order) == [mem EXCEPT !.orders[order].status = PAID]

\* The statuses admin_confirm_payment assigns before its single commit.
\* A confirmation that completes every Payment of the Order.
confirm_every_payment(order) ==
    [mem EXCEPT !.orders[order].status = PAID,
                !.payments = [p \in DOMAIN mem.payments |->
                                 IF mem.payments[p].order_id = order
                                   THEN [mem.payments[p] EXCEPT !.status = "completed"]
                                   ELSE mem.payments[p]]]

confirm_payment_changes(order) ==
    LET payment == first_Payment(order)
        m1 == [mem EXCEPT !.orders[order].status = PAID]
    IN  IF payment = 0 THEN m1 ELSE [m1 EXCEPT !.payments[payment].status = "completed"]

\* No administrator check; the except clause reports and rolls nothing back.
admin_confirm_payment(k, data, sendOk, commitOk) ==
    IF ~IsInt(data[4]) THEN [Keep(k) EXCEPT !.reply = "error"]
    ELSE LET order == query_Order(int(data[4]))
             m1 == confirm_payment_changes(order)
             user == query_User_by_id(mem.orders[order].user_id)
             delivered == commitOk /\ sendOk /\ user # 0
         IN  IF order = 0 THEN [Keep(k) EXCEPT !.reply = "order_not_found"]
             ELSE [Keep(k) EXCEPT
                     !.mem = m1,
                     !.or_mem = IF commitOk THEN {} ELSE {db},
                     !.db = IF commitOk THEN m1 ELSE db,
                     !.msgs = IF delivered
                                THEN {Msg(TelegramIdOf(user), "payment_confirmed", order, 0)}
                                ELSE {},
                     !.reply = IF commitOk /\ (sendOk \/ user = 0)
                                 THEN "payment_confirmed" ELSE "error"]

\* PaymentStatus has no member REJECTED (database.py): the assignment raises
\* AttributeError when the Order has a Payment, before anything is changed.
admin_reject_payment(k, data, sendOk) ==
    IF ~IsInt(data[4]) THEN [Keep(k) EXCEPT !.reply = "error"]
    ELSE LET order == query_Order(int(data[4]))
             user == query_User_by_id(mem.orders[order].user_id)
             delivered == sendOk /\ user # 0
         IN  IF order = 0 THEN [Keep(k) EXCEPT !.reply = "order_not_found"]
             ELSE IF first_Payment(order) # 0 THEN [Keep(k) EXCEPT !.reply = "error"]
             ELSE [Keep(k) EXCEPT
                     !.db = mem,
                     !.msgs = IF delivered
                                THEN {Msg(TelegramIdOf(user), "payment_rejected", order, 0)}
                                ELSE {},
                     !.reply = IF sendOk \/ user = 0 THEN "payment_rejected" ELSE "error"]

\* Pressing the button 'admin_reject_payment_<id>' that handle_payment_proof
\* puts under the proof: what the handler the dispatcher picks for it does.
reject_payment_button(k, order_id, sendOk, commitOk) ==
    LET data == <<"admin", "reject", "payment", str(order_id)>>
        h == RouteCallback(k, data)
    IN  IF h = "admin_reject_order" THEN admin_reject_order(k, data, sendOk, commitOk)
        ELSE IF h = "admin_reject_payment" THEN admin_reject_payment(k, data, sendOk)
        ELSE Keep(k)

-----------------------------------------------------------------------------
(* admin.py: the panel and its read-only or prompting entry points *)

admin_panel(k) ==
    IF k[2] # ADMIN_ID THEN NoAccess(k)
    ELSE [Keep(k) EXCEPT !.ret = END, !.reply = "admin_keyboard"]

admin_new_orders(k) ==
    IF k[2] # ADMIN_ID THEN NoAccess(k)
    ELSE [Keep(k) EXCEPT !.ret = END, !.reply = "new_orders"]

\* func.sum(Payment.amount) over the Payments with the status, from the i-th
\* row on.
RECURSIVE sum_amount(_, _, _)
sum_amount(payments, status, i) ==
    IF i > Len(payments) THEN 0
    ELSE (IF payments[i].status = status THEN payments[i].amount ELSE 0)
         + sum_amount(payments, status, i + 1)

\* A revenue that adds up the amount of every Payment.
revenue_of_all_payments(payments) ==
    sum_amount([i \in DOMAIN payments |-> [payments[i] EXCEPT !.status = "completed"]],
               "completed", 1)

\* "... .scalar() or 0": the sum over no row is NULL.
total_revenue(payments) == sum_amount(payments, "completed", 1)

\* The figures of the report, as the session's queries count them.
stats ==
    [total_orders |-> Len(mem.orders),
     orders_by_status |->
        [status \in OrderStatus |->
            Cardinality({i \in DOMAIN mem.orders : mem.orders[i].status = status})],
     total_users |-> Len(mem.users),
     total_revenue |-> total_revenue(mem.payments)]

admin_stats(k) ==
    IF k[2] # ADMIN_ID THEN NoAccess(k)
    ELSE [Keep(k) EXCEPT !.ret = END, !.reply = <<"stats", stats>>]

admin_broadcast(k) ==
    IF k[2] # ADMIN_ID THEN NoAccess(k)
    ELSE [Keep(k) EXCEPT !.ret = "WAITING_BROADCAST", !.reply = "broadcast_prompt"]

-----------------------------------------------------------------------------
(* admin.py: replies to Reviews and Messages *)

admin_review_response(k, data) ==
    IF k[2] # ADMIN_ID THEN NoAccess(k)
    ELSE IF ~IsInt(data[4]) THEN [Keep(k) EXCEPT !.ret = "raised"]
    ELSE [Keep(k) EXCEPT !.ud.review_id = int(data[4]),
                         !.ret = "WAITING_REVIEW_RESPONSE", !.reply = "response_prompt"]

admin_message_response(k, data) ==
    IF k[2] # ADMIN_ID THEN NoAccess(k)
    ELSE IF ~IsInt(data[4]) THEN [Keep(k) EXCEPT !.ret = "raised"]
    ELSE [Keep(k) EXCEPT !.ud.message_id = int(data[4]),
                         !.ret = "WAITING_USER_MESSAGE", !.reply = "response_prompt"]

\* The response is committed first and the customer is told afterwards; the
\* except clause rolls the session back and reports.
handle_user_message(k, text, commitOk, sendOk) ==
    LET message_id == user_data[k[2]].message_id
        message == query_Message(message_id)
        m1 == [mem EXCEPT !.messages[message].admin_response = text]
        user == query_User_by_id(mem.messages[message].user_id)
        told == commitOk /\ sendOk /\ user # 0
    IN  IF k[2] # ADMIN_ID THEN NoAccess(k)
        ELSE IF message_id = 0
          THEN [Keep(k) EXCEPT !.ret = END, !.reply = "no_message_id"]
        ELSE IF message = 0
          THEN [Keep(k) EXCEPT !.ret = END, !.reply = "message_not_found"]
        ELSE [Keep(k) EXCEPT
                !.db = IF commitOk THEN m1 ELSE db,
                !.mem = IF commitOk THEN m1 ELSE db,
                !.msgs = IF told
                           THEN {Msg(TelegramIdOf(user), "message_response", message, 0)}
                           ELSE {},
                !.reply = IF told THEN "response_saved" ELSE "error",
                !.ret = END]

-----------------------------------------------------------------------------
(* admin.py: the broadcast *)

\* The for loop of handle_broadcast from the i-th User on; failing holds the
\* positions of the Users whose send_message raises.
RECURSIVE broadcast_loop(_, _, _, _)
broadcast_loop(users, i, failing, acc) ==
    IF i > Len(users) THEN acc
    ELSE broadcast_loop(users, i + 1, failing,
            IF i \in failing
              THEN [acc EXCEPT !.attempted = Append(@, users[i]),
                               !.failed_count = @ + 1]
              ELSE [acc EXCEPT !.attempted = Append(@, users[i]),
                               !.sent_count = @ + 1,
                               !.msgs = @ \cup {Msg(users[i], "broadcast", 0, 0)}])

broadcast(users, failing) ==
    broadcast_loop(users, 1, failing,
                   [sent_count |-> 0, failed_count |-> 0, attempted |-> <<>>, msgs |-> {}])

\* A broadcast whose loop ends at the first send that raises.
broadcast_until_failure(k, text, queryOk, failing) ==
    LET users == mem.users
        stop == IF failing = {} THEN Len(users) + 1
                ELSE CHOOSE i \in failing : \A j \in failing : i <= j
    IN  IF k[2] # ADMIN_ID THEN NoAccess(k)
        ELSE IF ~queryOk \/ failing # {}
          THEN [Keep(k) EXCEPT
                  !.msgs = {Msg(users[i], "broadcast", 0, 0) : i \in 1..(stop - 1)},
                  !.ret = END, !.reply = <<"broadcast_failed", 0, 0>>]
        ELSE [Keep(k) EXCEPT
                !.msgs = broadcast(users, {}).msgs,
                !.ret = END,
                !.reply = <<"broadcast_done", Len(users), 0>>]

\* queryOk: session.query(User).all() returns.  The reply to the
\* administrator is the report with its two counters, or the error text.
handle_broadcast(k, text, queryOk, failing) ==
    IF k[2] # ADMIN_ID THEN NoAccess(k)
    ELSE IF ~queryOk
      THEN [Keep(k) EXCEPT !.ret = END, !.reply = <<"broadcast_failed", 0, 0>>]
    ELSE LET b == broadcast(mem.users, failing)
         IN  [Keep(k) EXCEPT
                !.msgs = b.msgs,
                !.ret = END,
                !.reply = <<"broadcast_done", b.sent_count, b.failed_count>>]

-----------------------------------------------------------------------------
(* bot.py: the order wizard *)

IsSpace(c) == c = " "

RECURSIVE lstrip(_)
lstrip(s) == IF s # <<>> /\ IsSpace(Head(s)) THEN lstrip(Tail(s)) ELSE s

RECURSIVE rstrip(_)
rstrip(s) == IF s # <<>> /\ IsSpace(s[Len(s)]) THEN rstrip(SubSeq(s, 1, Len(s) - 1)) ELSE s

\* str.strip() on a text given as its characters
strip(s) == rstrip(lstrip(s))

\* str.replace('.', '')
RECURSIVE remove_dots(_)
remove_dots(s) ==
    IF s = <<>> THEN <<>>
    ELSE IF Head(s) = "." THEN remove_dots(Tail(s)) ELSE <<Head(s)>> \o remove_dots(Tail(s))

isdigit(s) ==
    s # <<>> /\ \A i \in DOMAIN s : s[i] \in {"0", "1", "2", "3", "4", "5", "6", "7", "8", "9"}

\* OrderState(): a text field that is None is the empty text, a deadline that
\* is None is the empty tuple (a set one is <<day>>), a file path that is None
\* is 0.
OrderState ==
    [work_type |-> None, subject |-> <<>>, volume |-> <<>>, deadline |-> <<>>,
     file_path |-> 0, comment |-> <<>>, contact_info |-> <<>>]

is_valid(os) ==
    /\ os.work_type # None
    /\ os.subject # <<>>
    /\ os.volume # <<>>
    /\ os.deadline # <<>>
    /\ os.contact_info # <<>>

NoUserData ==
    [has_order_state |-> FALSE, order_state |-> OrderState,
     current_order_id |-> 0, current_payment_order_id |-> 0,
     review_id |-> 0, message_id |-> 0]

\* context.user_data['order_state'] = OrderState()
NewOrderState(k) ==
    [user_data[k[2]] EXCEPT !.has_order_state = TRUE, !.order_state = OrderState]

\* "if 'order_state' not in context.user_data: ... = OrderState()"
EnsureOrderState(k) ==
    IF user_data[k[2]].has_order_state THEN user_data[k[2]] ELSE NewOrderState(k)

create_order(k) ==
    [Keep(k) EXCEPT !.ud = NewOrderState(k),
                    !.ret = "WAITING_WORK_TYPE", !.reply = "choose_work_type"]

\* Registered for the work_type_ buttons and for text; with a text update
\* update.callback_query is None, and so is it again in the except clause.
handle_work_type(k, isCallback, data) ==
    IF ~isCallback THEN [Keep(k) EXCEPT !.ret = "raised"]
    ELSE [Keep(k) EXCEPT
            !.ud = [NewOrderState(k) EXCEPT !.order_state.work_type = data[3]],
            !.ret = "WAITING_SUBJECT", !.reply = "describe_subject"]

MIN_SUBJECT_LEN == 3

\* A subject handler that returns the state after the next.
subject_then_deadline(k, text) ==
    IF ~user_data[k[2]].has_order_state
      THEN [Keep(k) EXCEPT !.ret = END, !.reply = "error"]
    ELSE IF Len(strip(text)) < MIN_SUBJECT_LEN
      THEN [Keep(k) EXCEPT !.ret = "WAITING_SUBJECT", !.reply = "too_short"]
    ELSE [Keep(k) EXCEPT !.ud.order_state.subject = strip(text),
                         !.ret = "WAITING_DEADLINE", !.reply = "ask_volume"]

handle_subject(k, text) ==
    IF ~user_data[k[2]].has_order_state
      THEN [Keep(k) EXCEPT !.ret = END, !.reply = "error"]
    ELSE IF Len(strip(text)) < MIN_SUBJECT_LEN
      THEN [Keep(k) EXCEPT !.ret = "WAITING_SUBJECT", !.reply = "too_short"]
    ELSE [Keep(k) EXCEPT !.ud.order_state.subject = strip(text),
                         !.ret = "WAITING_VOLUME", !.reply = "ask_volume"]

\* A volume handler that stores the text before it checks it.
store_then_check_volume(k, text) ==
    [Keep(k) EXCEPT
       !.ud = [EnsureOrderState(k) EXCEPT !.order_state.volume = strip(text)],
       !.ret = IF isdigit(remove_dots(strip(text))) THEN "WAITING_DEADLINE"
                                                     ELSE "WAITING_VOLUME",
       !.reply = IF isdigit(remove_dots(strip(text))) THEN "ask_deadline"
                                                       ELSE "not_numeric"]

handle_volume(k, text) ==
    IF ~isdigit(remove_dots(strip(text)))
      THEN [Keep(k) EXCEPT !.ud = EnsureOrderState(k),
                           !.ret = "WAITING_VOLUME", !.reply = "not_numeric"]
      ELSE [Keep(k) EXCEPT !.ud = [EnsureOrderState(k) EXCEPT !.order_state.volume = strip(text)],
                           !.ret = "WAITING_DEADLINE", !.reply = "ask_deadline"]

MAX_DEADLINE_DAYS == 365

\* date: whether strptime parses the text, the day it names, counted from
\* today (the parsed deadline is that day's midnight), and whether the clock
\* reads exactly 00:00:00.000000 (datetime.now() is today's midnight).
handle_deadline(k, date) ==
    IF ~date.parses
      THEN [Keep(k) EXCEPT !.ud = EnsureOrderState(k),
                           !.ret = "WAITING_DEADLINE", !.reply = "bad_format"]
    ELSE IF date.day < 0 \/ (date.day = 0 /\ ~date.atMidnight)
      THEN [Keep(k) EXCEPT !.ud = EnsureOrderState(k),
                           !.ret = "WAITING_DEADLINE", !.reply = "in_the_past"]
    ELSE IF date.day > MAX_DEADLINE_DAYS
      THEN [Keep(k) EXCEPT !.ud = EnsureOrderState(k),
                           !.ret = "WAITING_DEADLINE", !.reply = "too_far"]
    ELSE [Keep(k) EXCEPT !.ud = [EnsureOrderState(k) EXCEPT !.order_state.deadline = <<date.day>>],
                         !.ret = "WAITING_FILE", !.reply = "ask_file"]

AllowedExt == {"pdf", "docx", "doc"}

\* A file handler without the removal of what a failed download wrote.
handle_file_keeping_partial(k, upload, dlOk) ==
    IF upload.kind = "document" /\ upload.ext \notin AllowedExt
      THEN [Keep(k) EXCEPT !.ud = EnsureOrderState(k),
                           !.ret = "WAITING_FILE", !.reply = "bad_extension"]
    ELSE IF upload.kind = "text"
      THEN [Keep(k) EXCEPT !.ud = EnsureOrderState(k),
                           !.ret = "WAITING_FILE", !.reply = "no_file"]
    ELSE IF ~dlOk
      THEN [Keep(k) EXCEPT !.files = Append(files, "partial"),
                           !.ud = EnsureOrderState(k),
                           !.ret = "WAITING_FILE", !.reply = "error"]
    ELSE [Keep(k) EXCEPT
            !.files = Append(files, "complete"),
            !.ud = [EnsureOrderState(k) EXCEPT !.order_state.file_path = Len(files) + 1],
            !.ret = "WAITING_COMMENT", !.reply = "ask_comment"]

\* upload: kind is "photo", "document" (with the lowercased extension of its
\* name) or "text".  A failed download removes what was written and re-prompts.
handle_file(k, upload, dlOk) ==
    IF upload.kind = "document" /\ upload.ext \notin AllowedExt
      THEN [Keep(k) EXCEPT !.ud = EnsureOrderState(k),
                           !.ret = "WAITING_FILE", !.reply = "bad_extension"]
    ELSE IF upload.kind = "text"
      THEN [Keep(k) EXCEPT !.ud = EnsureOrderState(k),
                           !.ret = "WAITING_FILE", !.reply = "no_file"]
    ELSE IF ~dlOk
      THEN [Keep(k) EXCEPT !.ud = EnsureOrderState(k),
                           !.ret = "WAITING_FILE", !.reply = "error"]
    ELSE [Keep(k) EXCEPT
            !.files = Append(files, "complete"),
            !.ud = [EnsureOrderState(k) EXCEPT !.order_state.file_path = Len(files) + 1],
            !.ret = "WAITING_COMMENT", !.reply = "ask_comment"]

handle_comment(k, text) ==
    [Keep(k) EXCEPT
       !.ud = [EnsureOrderState(k) EXCEPT
                 !.order_state.comment = IF strip(text) = <<"-">> THEN <<>> ELSE strip(text)],
       !.ret = "WAITING_CONTACT", !.reply = "ask_contact"]

\* An Order stored without looking its price up.
order_at_zero_price(user_id, os) ==
    [user_id |-> user_id, work_type |-> os.work_type, subject |-> os.subject,
     volume |-> os.volume, deadline |-> os.deadline, status |-> PENDING,
     price |-> 0, file_path |-> os.file_path,
     comment |-> os.comment, contact_info |-> os.contact_info]

Order(user_id, os) ==
    [user_id |-> user_id, work_type |-> os.work_type, subject |-> os.subject,
     volume |-> os.volume, deadline |-> os.deadline, status |-> PENDING,
     price |-> get_base_price(os.work_type), file_path |-> os.file_path,
     comment |-> os.comment, contact_info |-> os.contact_info]

\* A completion that stores a User without looking for the caller's.
finalize_adding_user(k, os, commitUserOk, commitOrderOk, sendOk) ==
    LET m1 == [mem EXCEPT !.users = Append(@, k[2])]
        d1 == IF commitUserOk THEN m1 ELSE db
        m2 == [m1 EXCEPT !.orders = Append(@, Order(Len(m1.users), os))]
        created == commitUserOk /\ commitOrderOk
        d2 == IF created THEN m2 ELSE d1
        announced == created /\ sendOk
    IN  [Keep(k) EXCEPT
           !.db = d2,
           !.mem = d2,
           !.ud = IF announced
                    THEN [user_data[k[2]] EXCEPT !.has_order_state = FALSE,
                                                 !.order_state = OrderState]
                    ELSE [user_data[k[2]] EXCEPT !.order_state = os],
           !.msgs = IF announced
                      THEN {Msg(ADMIN_ID, "new_order", Len(m2.orders), get_base_price(os.work_type))}
                      ELSE {},
           !.reply = IF announced THEN "order_created" ELSE "create_failed",
           !.ret = END]

\* The try block of handle_contact: the User is committed on its own when it
\* is new, then the Order; the except clause rolls back and reports.
finalize(k, os, commitUserOk, commitOrderOk, sendOk) ==
    LET found == query_User_by_telegram_id(k[2])
        m1 == IF found = 0 THEN [mem EXCEPT !.users = Append(@, k[2])] ELSE mem
        d1 == IF found = 0 /\ commitUserOk THEN m1 ELSE db
        userOk == found # 0 \/ commitUserOk
        user == IF found = 0 THEN Len(m1.users) ELSE found
        m2 == [m1 EXCEPT !.orders = Append(@, Order(user, os))]
        created == userOk /\ commitOrderOk
        d2 == IF created THEN m2 ELSE d1
        announced == created /\ sendOk
    IN  [Keep(k) EXCEPT
           !.db = d2,
           !.mem = d2,
           !.ud = IF announced
                    THEN [user_data[k[2]] EXCEPT !.has_order_state = FALSE,
                                                 !.order_state = OrderState]
                    ELSE [user_data[k[2]] EXCEPT !.order_state = os],
           !.msgs = IF announced
                      THEN {Msg(ADMIN_ID, "new_order", Len(m2.orders), get_base_price(os.work_type))}
                      ELSE {},
           !.reply = IF announced THEN "order_created" ELSE "create_failed",
           !.ret = END]

handle_contact(k, text, commitUserOk, commitOrderOk, sendOk) ==
    LET os == [user_data[k[2]].order_state EXCEPT !.contact_info = strip(text)]
    IN  IF ~user_data[k[2]].has_order_state
          THEN [Keep(k) EXCEPT !.ret = END, !.reply = "no_order_data"]
        ELSE IF ~is_valid(os)
          THEN [Keep(k) EXCEPT !.ud.order_state = os, !.ret = END, !.reply = "incomplete"]
        ELSE finalize(k, os, commitUserOk, commitOrderOk, sendOk)

\* The /cancel fallback of order_conv.
cancel(k) == [Keep(k) EXCEPT !.ret = END, !.reply = "cancelled"]

\* Defined in bot.py and registered nowhere: no callback query reaches it.
cancel_order(k) ==
    LET os == user_data[k[2]].order_state
        path == os.file_path
    IN  [Keep(k) EXCEPT
           !.files = IF user_data[k[2]].has_order_state /\ path \in DOMAIN files
                       THEN [files EXCEPT ![path] = "removed"] ELSE files,
           !.ud = [user_data[k[2]] EXCEPT !.has_order_state = FALSE,
                                          !.order_state = OrderState],
           !.ret = END, !.reply = "order_cancelled"]

\* admin_response: <<>> is None.
Message(user_id, text) == [user_id |-> user_id, text |-> text, admin_response |-> <<>>]

\* The last handler of the group: any text no earlier handler took.
handle_support_message(k, text, sendOk) ==
    LET found == query_User_by_telegram_id(k[2])
        m1 == IF found = 0 THEN [mem EXCEPT !.users = Append(@, k[2])] ELSE mem
        user == IF found = 0 THEN Len(m1.users) ELSE found
        m2 == [m1 EXCEPT !.messages = Append(@, Message(user, text))]
    IN  IF k[2] = ADMIN_ID THEN Keep(k)
        ELSE IF user_data[k[2]].has_order_state \/ user_data[k[2]].current_order_id # 0
          THEN Keep(k)
        ELSE [Keep(k) EXCEPT
                !.db = m2, !.mem = m2,
                !.msgs = IF sendOk THEN {Msg(ADMIN_ID, "support_message", 0, 0)} ELSE {},
                !.reply = IF sendOk THEN "message_forwarded" ELSE "error"]

-----------------------------------------------------------------------------
(* Updates *)

SubjectTexts == {<<"a", "b">>, <<" ", "M", "a", "t", "h">>}
VolumeTexts == {<<"1", "0">>, <<"t", "e", "n">>}
DeadlineInputs ==
    {[parses |-> FALSE, day |-> 0, atMidnight |-> FALSE],
     [parses |-> TRUE, day |-> 0, atMidnight |-> TRUE]}
    \cup {[parses |-> TRUE, day |-> d, atMidnight |-> FALSE] :
             d \in {-1, 0, MAX_DEADLINE_DAYS, MAX_DEADLINE_DAYS + 1}}
Uploads ==
    {[kind |-> "photo", ext |-> "jpg"], [kind |-> "document", ext |-> "pdf"],
     [kind |-> "document", ext |-> "exe"], [kind |-> "text", ext |-> ""]}
CommentTexts == {<<"-">>, <<"h", "i">>}
ContactTexts == {<<"a", "@", "b">>}
SupportTexts == {<<"h", "i">>}

\* What may fail inside a handler, in the order the handler does it: <<a, b>>
\* and <<a, b, c>> say which of its fallible steps work.  A step that is not
\* reached because an earlier one failed has no outcome of its own (TRUE).
Outcomes2 == {f \in BOOLEAN \X BOOLEAN : ~f[1] => f[2]}

Outcomes3 ==
    {f \in BOOLEAN \X BOOLEAN \X BOOLEAN : (~f[1] => f[2] /\ f[3]) /\ (~f[2] => f[3])}

\* handle_payment_proof: the download, what a failed download leaves on disk,
\* the message to the administrator.
ProofOutcomes ==
    {f \in BOOLEAN \X BOOLEAN \X BOOLEAN : IF f[1] THEN ~f[2] ELSE f[3]}

\* The first customer runs the wizard.
WizardKeys == {<<1, 1>>}

-----------------------------------------------------------------------------
(* Actions: one per handler, taken when the dispatcher routes the update to it *)

On_create_order ==
    \E k \in WizardKeys :
       /\ RouteCallback(k, <<"create", "order">>) = "create_order"
       /\ Apply("create_order", k, "order_conv",
                [create_order(k) EXCEPT !.hist.cancelled = "none", !.hist.orders_then = 0])

On_handle_work_type ==
    \E k \in WizardKeys :
       \/ \E data \in CallbackData :
             /\ RouteCallback(k, data) = "handle_work_type"
             /\ Apply("handle_work_type", k, "order_conv",
                      handle_work_type(k, TRUE, data))
       \/ /\ RouteText(k) = "handle_work_type"
          /\ Apply("handle_work_type", k, "order_conv",
                   handle_work_type(k, FALSE, <<>>))

On_handle_subject ==
    \E k \in WizardKeys, text \in SubjectTexts :
       /\ RouteText(k) = "handle_subject"
       /\ Apply("handle_subject", k, "order_conv", handle_subject(k, text))

On_handle_volume ==
    \E k \in WizardKeys, text \in VolumeTexts :
       /\ RouteText(k) = "handle_volume"
       /\ Apply("handle_volume", k, "order_conv", handle_volume(k, text))

On_handle_deadline ==
    \E k \in WizardKeys, date \in DeadlineInputs :
       /\ RouteText(k) = "handle_deadline"
       /\ Apply("handle_deadline", k, "order_conv", handle_deadline(k, date))

On_handle_file ==
    \E k \in WizardKeys, upload \in Uploads, dlOk \in BOOLEAN :
       /\ IF upload.kind = "text" THEN RouteText(k) = "handle_file"
                                  ELSE RouteFile(k) = "handle_file"
       /\ LET r == handle_file(k, upload, dlOk)
          IN  /\ Len(r.files) <= MaxFiles
              /\ Apply("handle_file", k, "order_conv", r)

On_handle_comment ==
    \E k \in WizardKeys, text \in CommentTexts :
       /\ RouteText(k) = "handle_comment"
       /\ Apply("handle_comment", k, "order_conv", handle_comment(k, text))

On_handle_contact ==
    \E k \in WizardKeys, text \in ContactTexts, f \in Outcomes3 :
       /\ RouteText(k) = "handle_contact"
       /\ LET r == handle_contact(k, text, f[1], f[2], f[3])
          IN  /\ Len(r.db.orders) <= MaxOrders
              /\ Apply("handle_contact", k, "order_conv", r)

On_cancel ==
    \E k \in WizardKeys :
       /\ RouteCommand(k, "cancel") = "cancel"
       /\ Apply("cancel", k, "order_conv",
                [cancel(k) EXCEPT !.hist.cancelled = "command",
                                  !.hist.orders_then = Len(db.orders)])

On_handle_support_message ==
    \E k \in WizardKeys, text \in SupportTexts, sendOk \in BOOLEAN :
       /\ RouteText(k) = "handle_support_message"
       /\ LET r == handle_support_message(k, text, sendOk)
          IN  /\ Len(r.db.messages) <= MaxMessages
              /\ Apply("handle_support_message", k, "none", r)

\* The first customer writes to the bot in a private chat and in a group: the
\* conversation key is (chat id, user id), user_data belongs to the user.
ChatKeys == {<<1, 1>>, <<-100, 1>>}

On_create_order_in_chat ==
    \E k \in ChatKeys, data \in CallbackData :
       /\ RouteCallback(k, data) = "create_order"
       /\ Apply("create_order", k, "order_conv", create_order(k))

On_handle_work_type_in_chat ==
    \E k \in ChatKeys, data \in CallbackData :
       /\ RouteCallback(k, data) = "handle_work_type"
       /\ Apply("handle_work_type", k, "order_conv", handle_work_type(k, TRUE, data))

On_handle_contact_in_chat ==
    \E k \in ChatKeys, text \in ContactTexts, f \in Outcomes3 :
       /\ RouteText(k) = "handle_contact"
       /\ LET r == handle_contact(k, text, f[1], f[2], f[3])
          IN  /\ Len(r.db.orders) <= MaxOrders
              /\ Apply("handle_contact", k, "order_conv", r)

\* A callback query or a command that no registered handler matches: the
\* dispatcher drops it.
unhandled_from(callers) ==
    \E k \in callers :
       \/ \E data \in CallbackData :
             /\ RouteCallback(k, data) = "unhandled"
             /\ Apply("unhandled", k, "none",
                      IF data = <<"cancel">> /\ orderConv[k] # END
                        THEN [Keep(k) EXCEPT !.hist.cancelled = "button",
                                             !.hist.orders_then = Len(db.orders)]
                        ELSE Keep(k))
       \/ /\ RouteCommand(k, "cancel") = "unhandled"
          /\ Apply("unhandled", k, "none", Keep(k))

On_unhandled == unhandled_from(Keys)

On_wizard_unhandled == unhandled_from(WizardKeys)

On_admin_panel ==
    \E k \in Keys :
       /\ RouteCommand(k, "admin") = "admin_panel"
       /\ Apply("admin_panel", k, "admin_conv", admin_panel(k))

On_admin_new_orders ==
    \E k \in Keys, data \in CallbackData :
       /\ RouteCallback(k, data) = "admin_new_orders"
       /\ Apply("admin_new_orders", k, "none", admin_new_orders(k))

On_admin_stats ==
    \E k \in Keys, data \in CallbackData :
       /\ RouteCallback(k, data) = "admin_stats"
       /\ Apply("admin_stats", k, "none", admin_stats(k))

On_admin_broadcast ==
    \E k \in Keys, data \in CallbackData :
       /\ RouteCallback(k, data) = "admin_broadcast"
       /\ Apply("admin_broadcast", k, "none", admin_broadcast(k))

On_admin_accept_order ==
    \E k \in Keys, data \in CallbackData :
       /\ RouteCallback(k, data) = "admin_accept_order"
       /\ Apply("admin_accept_order", k, "admin_conv", admin_accept_order(k, data))

\* A press on the accept control of an Order, whatever the dispatcher does
\* with it: admin_conv takes it as its entry point when the caller has no
\* conversation with it, and no other handler's pattern matches it.
\* hist.accepted is the Order of the administrator's last press.
On_accept_button ==
    \E k \in Keys, order_id \in OrderIds :
       LET data == <<"admin", "accept", str(order_id)>>
           h == RouteCallback(k, data)
           r == IF h = "admin_accept_order" THEN admin_accept_order(k, data) ELSE Keep(k)
       IN  /\ h \in {"admin_accept_order", "unhandled"}
           /\ Apply(h, k, IF h = "admin_accept_order" THEN "admin_conv" ELSE "none",
                    IF k[2] = ADMIN_ID THEN [r EXCEPT !.hist.accepted = order_id] ELSE r)

On_handle_price_setting ==
    \E k \in Keys, text \in PriceTexts, f \in Outcomes3 :
       /\ RouteText(k) = "handle_price_setting"
       /\ Apply("handle_price_setting", k, "admin_conv",
                handle_price_setting(k, text, f[1], f[2], f[3]))

On_admin_reject_order ==
    \E k \in Keys, data \in CallbackData, f \in Outcomes2 :
       /\ RouteCallback(k, data) = "admin_reject_order"
       /\ Apply("admin_reject_order", k, "none",
                admin_reject_order(k, data, f[2], f[1]))

On_handle_payment ==
    \E k \in Keys, data \in CallbackData :
       /\ RouteCallback(k, data) = "handle_payment"
       /\ LET r == handle_payment(k, data)
          IN  /\ Len(r.db.payments) <= MaxPayments
              /\ Apply("handle_payment", k, "none", r)

On_handle_payment_proof ==
    \E k \in Keys, f \in ProofOutcomes :
       /\ RouteFile(k) = "handle_payment_proof"
       /\ LET r == handle_payment_proof(k, f[1], f[2], f[3])
          IN  /\ Len(r.proofs) <= MaxProofs
              /\ Apply("handle_payment_proof", k, "none", r)

On_admin_confirm_payment ==
    \E k \in Keys, data \in CallbackData, f \in Outcomes2 :
       /\ RouteCallback(k, data) = "admin_confirm_payment"
       /\ Apply("admin_confirm_payment", k, "none",
                admin_confirm_payment(k, data, f[2], f[1]))

\* The contact text of any caller whose wizard awaits it.
On_contact_of_any_caller ==
    \E k \in Keys, text \in ContactTexts, f \in Outcomes3 :
       /\ RouteText(k) = "handle_contact"
       /\ LET r == handle_contact(k, text, f[1], f[2], f[3])
          IN  /\ Len(r.db.orders) <= MaxOrders
              /\ Apply("handle_contact", k, "order_conv", r)

\* A text of any caller that reaches the last handler of the group.
On_text_to_support ==
    \E k \in Keys, text \in SupportTexts, sendOk \in BOOLEAN :
       /\ RouteText(k) = "handle_support_message"
       /\ LET r == handle_support_message(k, text, sendOk)
          IN  /\ Len(r.db.messages) <= MaxMessages
              /\ Apply("handle_support_message", k, "none", r)

On_admin_review_response ==
    \E k \in Keys, data \in CallbackData :
       /\ RouteCallback(k, data) = "admin_review_response"
       /\ Apply("admin_review_response", k, "none", admin_review_response(k, data))

On_admin_message_response ==
    \E k \in Keys, data \in CallbackData :
       /\ RouteCallback(k, data) = "admin_message_response"
       /\ Apply("admin_message_response", k, "none", admin_message_response(k, data))

\* handle_broadcast applied to a text of the caller.
On_handle_broadcast ==
    \E k \in Keys, text \in SupportTexts, queryOk \in BOOLEAN :
       \E failing \in SUBSET DOMAIN mem.users :
          /\ ~queryOk => failing = {}
          /\ Apply("handle_broadcast", k, "admin_conv",
                   handle_broadcast(k, text, queryOk, failing))

-----------------------------------------------------------------------------
(* Specifications *)

NoEvent == [h |-> "start", caller |-> 0, ret |-> None, reply |-> None]

EmptyDB == [users |-> <<>>, orders |-> <<>>, payments |-> <<>>, messages |-> <<>>]

InitProcess ==
    /\ mem = db
    /\ user_data = [c \in Callers |-> NoUserData]
    /\ orderConv = [k \in Keys |-> END]
    /\ adminConv = [k \in Keys |-> END]
    /\ proofs = <<>>
    /\ ev = NoEvent
    /\ sent = {}
    /\ hist = [notified |-> {}, cancelled |-> "none", orders_then |-> 0, accepted |-> 0]

\* An Order as a completed wizard run of its owner stored it.
StoredWorkType == <<"essay", "coursework", "essay", "coursework">>

StoredOrder(i, user_id) ==
    Order(user_id,
          [work_type |-> StoredWorkType[i], subject |-> <<"M", "a", "t", "h">>,
           volume |-> <<"1", "0">>, deadline |-> <<MAX_DEADLINE_DAYS>>, file_path |-> i,
           comment |-> <<>>, contact_info |-> <<"a", "@", "b">>])

\* The bot starts on a database that earlier wizard runs of the two customers
\* have filled: both are Users, and there are one to MaxOrders pending Orders,
\* the first of them the first customer's.
Init ==
    /\ \E n \in 1..MaxOrders : \E owner \in [1..n -> {1, 2}] :
          /\ owner[1] = 1
          /\ db = [EmptyDB EXCEPT !.users = <<1, 2>>,
                                  !.orders = [i \in 1..n |-> StoredOrder(i, owner[i])]]
          /\ files = [i \in 1..n |-> "complete"]
    /\ InitProcess

Next ==
    \/ On_admin_panel
    \/ On_admin_new_orders
    \/ On_admin_stats
    \/ On_admin_broadcast
    \/ On_admin_accept_order
    \/ On_handle_price_setting
    \/ On_admin_reject_order
    \/ On_handle_payment
    \/ On_handle_payment_proof
    \/ On_admin_confirm_payment
    \/ On_unhandled

\* The admin and payment workflows over stored Orders.
Spec == Init /\ [][Next]_vars

\* Every update is dispatched: a confirmation or a rejection that the
\* administrator keeps pressing is eventually handled and committed.
SpecFair ==
    /\ Spec
    /\ WF_db(On_admin_confirm_payment /\ db'.orders[1].status = PAID)
    /\ WF_db(On_admin_reject_order /\ db'.orders[1].status = CANCELLED)

\* The wizard's state after its last step.
CompleteOrderState ==
    [work_type |-> "coursework", subject |-> <<"M", "a", "t", "h">>,
     volume |-> <<"1", "0">>, deadline |-> <<1>>, file_path |-> 1,
     comment |-> <<>>, contact_info |-> <<"a", "@", "b">>]

\* The bot starts on an empty database.
InitWizard ==
    /\ db = EmptyDB
    /\ files = <<>>
    /\ InitProcess

NextWizard ==
    \/ On_create_order
    \/ On_handle_work_type
    \/ On_handle_subject
    \/ On_handle_volume
    \/ On_handle_deadline
    \/ On_handle_file
    \/ On_handle_comment
    \/ On_handle_contact
    \/ On_cancel
    \/ On_handle_support_message
    \/ On_wizard_unhandled

\* The order wizard.
SpecWizard == InitWizard /\ [][NextWizard]_vars

NextLifecycle ==
    \/ On_create_order
    \/ On_handle_work_type
    \/ On_handle_subject
    \/ On_handle_volume
    \/ On_handle_deadline
    \/ On_handle_file
    \/ On_handle_comment
    \/ On_handle_contact
    \/ On_admin_accept_order
    \/ On_handle_price_setting

\* An Order from the wizard to the administrator's price.
SpecLifecycle == InitWizard /\ [][NextLifecycle]_vars

NextAdmin ==
    \/ On_text_to_support
    \/ On_admin_panel
    \/ On_admin_broadcast
    \/ On_admin_review_response
    \/ On_admin_message_response

\* The administrator's prompts and the texts that follow them.
SpecAdmin == InitWizard /\ [][NextAdmin]_vars

\* The first customer has stored an Order for every id a pay_ button names.
InitPayment ==
    /\ db = [EmptyDB EXCEPT !.users = <<1, 2>>,
                            !.orders = [i \in OrderIds |-> StoredOrder(i, 1)]]
    /\ files = [i \in OrderIds |-> "complete"]
    /\ InitProcess

NextPayment ==
    \/ On_handle_payment
    \/ On_handle_payment_proof

\* Payment triggers and proofs over several Orders of one customer.
SpecPayment == InitPayment /\ [][NextPayment]_vars

NextAccept ==
    \/ On_accept_button
    \/ On_handle_price_setting

\* The administrator's accept controls and price texts over several Orders.
SpecAccept == InitPayment /\ [][NextAccept]_vars

\* In one chat or in both the customer has answered every question of the
\* wizard but the last; the answers are in the customer's user_data.
InitTwoChats ==
    /\ db = EmptyDB
    /\ files = <<>>
    /\ mem = db
    /\ user_data =
         [c \in Callers |->
            IF c = 1
              THEN [NoUserData EXCEPT
                      !.has_order_state = TRUE,
                      !.order_state = [CompleteOrderState EXCEPT
                                         !.file_path = 0, !.contact_info = <<>>]]
              ELSE NoUserData]
    /\ \E waiting \in SUBSET ChatKeys :
          /\ waiting # {}
          /\ orderConv = [k \in ChatKeys |-> IF k \in waiting THEN "WAITING_CONTACT" ELSE END]
    /\ adminConv = [k \in ChatKeys |-> END]
    /\ proofs = <<>>
    /\ ev = NoEvent
    /\ sent = {}
    /\ hist = [notified |-> {}, cancelled |-> "none", orders_then |-> 0, accepted |-> 0]

NextTwoChats ==
    \/ On_create_order_in_chat
    \/ On_handle_work_type_in_chat
    \/ On_handle_contact_in_chat

\* The starts and the ends of one customer's wizards in two chats.
SpecTwoChats == InitTwoChats /\ [][NextTwoChats]_vars

\* The User tables a broadcast may find: up to MaxUsers Users with distinct
\* telegram ids.
UserTables ==
    {u \in UNION {[1..n -> Callers] : n \in 0..MaxUsers} :
        \A i, j \in DOMAIN u : u[i] = u[j] => i = j}

\* Some customers have a User and nothing else stored (a review, or an Order
\* that failed to commit, left it); some have answered every question of the
\* wizard but the last.
InitUsers ==
    /\ \E u \in UserTables :
          /\ \A i \in DOMAIN u : u[i] \in Customers
          /\ db = [EmptyDB EXCEPT !.users = u]
    /\ files = <<>>
    /\ mem = db
    /\ \E waiting \in SUBSET Customers :
          /\ user_data =
               [c \in Callers |->
                  IF c \in waiting
                    THEN [NoUserData EXCEPT
                            !.has_order_state = TRUE,
                            !.order_state = [CompleteOrderState EXCEPT
                                               !.file_path = 0, !.contact_info = <<>>]]
                    ELSE NoUserData]
          /\ orderConv = [k \in Keys |-> IF k[2] \in waiting THEN "WAITING_CONTACT" ELSE END]
    /\ adminConv = [k \in Keys |-> END]
    /\ proofs = <<>>
    /\ ev = NoEvent
    /\ sent = {}
    /\ hist = [notified |-> {}, cancelled |-> "none", orders_then |-> 0, accepted |-> 0]

NextUsers ==
    \/ On_contact_of_any_caller
    \/ On_text_to_support

\* Wizard completions and support messages of every customer.
SpecUsers == InitUsers /\ [][NextUsers]_vars

InitBroadcast ==
    /\ \E u \in UserTables : db = [EmptyDB EXCEPT !.users = u]
    /\ files = <<>>
    /\ InitProcess

NextBroadcast == On_handle_broadcast

\* handle_broadcast over every User table.
SpecBroadcast == InitBroadcast /\ [][NextBroadcast]_vars

-----------------------------------------------------------------------------
(* Properties of price setting *)

Admin == <<ADMIN_ID, ADMIN_ID>>

CreationPrice(o) == get_base_price(db.orders[o].work_type)

\* The administrator's text reaches the notification of handle_price_setting:
\* the conversation awaits a price for an Order that exists, and the text is a
\* positive amount.
ReachesNotification(text) ==
    /\ RouteText(Admin) = "handle_price_setting"
    /\ query_Order(user_data[ADMIN_ID].current_order_id) # 0
    /\ IsFloat(text)
    /\ float(text) > 0

\* C1: the committed price of an Order differs from the price it was created
\* with only if a notification carrying that price was delivered to the
\* customer; and when the notification of handle_price_setting fails, the
\* handler writes no price, sends nothing, reports the failure to the
\* administrator and ends the conversation.
C1_PriceOnlyAfterNotification ==
    /\ \A o \in DOMAIN db.orders :
          db.orders[o].price # CreationPrice(o)
             => <<o, db.orders[o].price>> \in hist.notified
    /\ \A text \in PriceTexts, commitOk \in BOOLEAN, replyOk \in BOOLEAN :
          ReachesNotification(text) =>
             LET r == handle_price_setting(Admin, text, FALSE, commitOk, replyOk)
             IN  /\ r.db = db
                 /\ r.mem = mem
                 /\ r.msgs = {}
                 /\ r.reply = "notify_failed"
                 /\ r.ret = END

\* The notification failed: the administrator was told, the conversation is
\* over and the Order has the price it was created with.
C1_Witness ==
    /\ ev.h = "handle_price_setting"
    /\ ev.reply = "notify_failed"
    /\ sent = {}
    /\ hist.notified = {}
    /\ adminConv[Admin] = END
    /\ \A o \in DOMAIN db.orders : db.orders[o].price = CreationPrice(o)

\* C2: whenever handle_price_setting has delivered the price notification, the
\* price it carries is the committed price of the Order.
C2_DeliveredPriceIsCommitted ==
    ev.h = "handle_price_setting" =>
       \A m \in sent : m.kind = "price" => db.orders[m.order].price = m.price

-----------------------------------------------------------------------------
(* Properties of the administrator check *)

AdminEntryPoints ==
    {"admin_panel", "admin_new_orders", "admin_stats", "admin_broadcast",
     "admin_accept_order", "handle_price_setting", "admin_reject_order",
     "admin_confirm_payment", "admin_reject_payment"}

\* C3: an admin entry point invoked by a caller who is not the administrator
\* answers with the permission message and changes no row, no per-user state
\* and sends nothing.
C3_NonAdminChangesNothing ==
    [][(ev'.h \in AdminEntryPoints /\ ev'.caller # ADMIN_ID)
          => /\ ev'.reply = "no_access"
             /\ db' = db
             /\ mem' = mem
             /\ user_data' = user_data
             /\ sent' = {}]_vars

-----------------------------------------------------------------------------
(* Properties of rejecting an Order *)

\* C6: admin_reject_order, invoked by the administrator on an Order that
\* exists, commits the status cancelled and notifies the customer afterwards;
\* when the notification fails the Order is cancelled all the same, in the
\* database and in the session.
C6_RejectCommitsBeforeNotifying ==
    \A o \in DOMAIN db.orders, sendOk \in BOOLEAN :
       LET data == <<"admin", "reject", str(o)>>
           r == admin_reject_order(Admin, data, sendOk, TRUE)
       IN  RouteCallback(Admin, data) = "admin_reject_order" =>
              /\ r.db.orders[o].status = CANCELLED
              /\ r.mem.orders[o].status = CANCELLED
              /\ r.msgs = IF sendOk
                            THEN {Msg(TelegramIdOf(db.orders[o].user_id),
                                      "order_rejected", o, 0)}
                            ELSE {}
              /\ r.reply = IF sendOk THEN "order_rejected" ELSE "error"

\* An Order was rejected, the customer could not be told, and the Order is
\* cancelled.
C6_Witness ==
    /\ ev.h = "admin_reject_order"
    /\ ev.caller = ADMIN_ID
    /\ ev.reply = "error"
    /\ sent = {}
    /\ \E o \in DOMAIN db.orders :
          db.orders[o].status = CANCELLED /\ mem.orders[o].status = CANCELLED

-----------------------------------------------------------------------------
(* Properties of rejecting and confirming a payment *)

PendingPaymentOf(o) ==
    first_Payment(o) # 0 /\ db.payments[first_Payment(o)].status = "pending"

\* C7: when the administrator presses 'admin_reject_payment_<id>' for a
\* pending Order, the Order is pending afterwards, in the database and in the
\* session.
C7_RejectPaymentKeepsOrderPending ==
    \A o \in DOMAIN db.orders, f \in Outcomes2 :
       LET r == reject_payment_button(Admin, o, f[2], f[1])
       IN  mem.orders[o].status = PENDING =>
              /\ r.db.orders[o].status = db.orders[o].status
              /\ r.mem.orders[o].status = PENDING

\* The administrator pressed the button under the proof of a pending Order's
\* Payment, and the Order is pending.
C7_Witness ==
    /\ ev.h = "admin_reject_order"
    /\ ev.caller = ADMIN_ID
    /\ ev.ret = "raised"
    /\ \E o \in DOMAIN db.orders :
          /\ db.orders[o].status = PENDING
          /\ PendingPaymentOf(o)
          /\ db.payments[first_Payment(o)].proof_file # 0

\* C8: when the administrator presses 'admin_reject_payment_<id>' for an Order
\* that has a pending Payment, the Payment becomes rejected or failed and the
\* customer is sent a rejection notification.
C8_RejectPaymentFailsPayment ==
    \A o \in DOMAIN db.orders :
       LET r == reject_payment_button(Admin, o, TRUE, TRUE)
       IN  PendingPaymentOf(o) =>
              /\ r.db.payments[first_Payment(o)].status \in {"rejected", "failed"}
              /\ \E m \in r.msgs : m.kind = "payment_rejected" /\ m.order = o

\* C9: admin_confirm_payment on an Order that exists commits the Order as paid
\* and its Payment as completed together or not at all, then notifies the
\* customer; when the notification fails both statuses stay.
C9_ConfirmCommitsBothStatuses ==
    \A o \in DOMAIN db.orders, f \in Outcomes2 :
       LET data == <<"admin", "confirm", "payment", str(o)>>
           r == admin_confirm_payment(Admin, data, f[2], f[1])
           p == first_Payment(o)
       IN  RouteCallback(Admin, data) = "admin_confirm_payment" =>
              IF f[1]
                THEN /\ r.db.orders[o].status = PAID
                     /\ p # 0 => r.db.payments[p].status = "completed"
                     /\ f[2] => \E m \in r.msgs : m.kind = "payment_confirmed" /\ m.order = o
                     /\ ~f[2] => r.msgs = {} /\ r.reply = "error"
                ELSE r.db = db

\* A payment was confirmed, the customer could not be told, and the Order is
\* paid and its Payment completed.
C9_Witness ==
    /\ ev.h = "admin_confirm_payment"
    /\ ev.reply = "error"
    /\ sent = {}
    /\ \E o \in DOMAIN db.orders :
          /\ db.orders[o].status = PAID
          /\ first_Payment(o) # 0
          /\ db.payments[first_Payment(o)].status = "completed"

-----------------------------------------------------------------------------
(* Properties of starting a payment *)

\* The administrator has set the price of the Order: a price notification for
\* it was delivered, or the session holds a price other than the one the Order
\* was created with.
PriceSetByAdmin(o) ==
    \/ \E n \in hist.notified : n[1] = o
    \/ mem.orders[o].price # CreationPrice(o)

\* C10: handle_payment, called by the owner of the Order the button names,
\* creates a Payment exactly when the Order exists, is pending and has had its
\* price set by the administrator; the Payment is pending, tied to the Order
\* and the caller's User, and its amount is the Order's price.
C10_PaymentOnlyForPricedPendingOrder ==
    \A c \in Customers, i \in OrderIds :
       LET r == handle_payment(<<c, c>>, <<"pay", str(i)>>)
           o == query_Order(i)
           mine == o # 0 /\ mem.orders[o].user_id = query_User_by_telegram_id(c)
           created == Len(r.db.payments) = Len(db.payments) + 1
       IN  (o = 0 \/ mine) =>
              /\ created <=> (o # 0 /\ mem.orders[o].status = PENDING /\ PriceSetByAdmin(o))
              /\ created =>
                    r.db.payments[Len(r.db.payments)] =
                       Payment(query_User_by_telegram_id(c), o, mem.orders[o].price)
              /\ ~created => r.db = db

-----------------------------------------------------------------------------
(* Properties of cancelling the wizard *)

Customer == <<1, 1>>

\* C4: once the running wizard has received a cancel input, the inline cancel
\* button or the /cancel command, the order conversation is over and no Order
\* has been stored since.
C4_CancelEndsWizard ==
    hist.cancelled # "none" =>
       /\ orderConv[Customer] = END
       /\ Len(db.orders) = hist.orders_then

\* The attachment the wizard state names is no longer in storage.
AttachmentRemoved(os) ==
    os.file_path \in DOMAIN files => files[os.file_path] = "removed"

\* C5: once the running wizard has received a cancel input, the wizard state
\* is gone from user_data and the attachment downloaded for the run has been
\* removed from storage.
C5_CancelDiscardsState ==
    hist.cancelled # "none" =>
       /\ ~user_data[1].has_order_state
       /\ AttachmentRemoved(user_data[1].order_state)

-----------------------------------------------------------------------------
(* Properties of finalizing the wizard *)

\* The contact text completes a valid wizard state of the customer.
ReachesFinalize(text) ==
    /\ RouteText(Customer) = "handle_contact"
    /\ user_data[1].has_order_state
    /\ is_valid([user_data[1].order_state EXCEPT !.contact_info = strip(text)])

\* C11: when handle_contact receives the contact with every field collected
\* and both commits work, the Order is stored, the wizard state is removed
\* from user_data, also when the message to the administrator fails, and the
\* administrator is sent the new Order when the message works.
C11_FinalizeClearsWizardState ==
    \A text \in ContactTexts, sendOk \in BOOLEAN :
       ReachesFinalize(text) =>
          LET r == handle_contact(Customer, text, TRUE, TRUE, sendOk)
          IN  /\ Len(r.db.orders) = Len(db.orders) + 1
              /\ ~r.ud.has_order_state
              /\ sendOk => \E m \in r.msgs : m.kind = "new_order" /\ m.to = ADMIN_ID

\* C12: the Order that handle_contact stores is pending and priced at the
\* base price of its work category, 0 for a category without one; and the
\* committed price of a stored Order changes only to an amount that
\* handle_price_setting has assigned, which it does after it has notified
\* the customer of that amount.
C12_BasePriceUntilPriceSetting ==
    /\ [](\A text \in ContactTexts, sendOk \in BOOLEAN :
            ReachesFinalize(text) =>
               LET r == handle_contact(Customer, text, TRUE, TRUE, sendOk)
                   o == r.db.orders[Len(r.db.orders)]
                   w == user_data[1].order_state.work_type
               IN  /\ Len(r.db.orders) = Len(db.orders) + 1
                   /\ o.work_type = w
                   /\ o.status = PENDING
                   /\ o.price = IF w \in DOMAIN BASE_PRICES THEN BASE_PRICES[w] ELSE 0)
    /\ [][\A o \in DOMAIN db.orders :
            db'.orders[o].price # db.orders[o].price =>
               <<o, db'.orders[o].price>> \in hist'.notified]_vars

\* An Order of a category without a base price was stored at 0, is still
\* pending and has now been given the administrator's price.
C12_Witness ==
    /\ ev.h = "handle_price_setting"
    /\ ev.reply = "price_set"
    /\ Len(db.orders) = 1
    /\ db.orders[1].work_type = "other"
    /\ db.orders[1].status = PENDING
    /\ db.orders[1].price = 600

-----------------------------------------------------------------------------
(* Properties of the wizard's inputs *)

\* The handler's result keeps the wizard in the state st and changes neither
\* the customer's user_data, nor the database, nor the session, nor the files.
RePrompts(r, st) ==
    /\ r.ret = st
    /\ r.ud = user_data[1]
    /\ r.db = db
    /\ r.mem = mem
    /\ r.files = files

InvalidSubject(text) == Len(strip(text)) < MIN_SUBJECT_LEN

InvalidVolume(text) == ~isdigit(remove_dots(strip(text)))

\* Unparseable, before the present instant, or more than a year ahead.
InvalidDeadline(date) ==
    \/ ~date.parses
    \/ date.day < 0
    \/ date.day = 0 /\ ~date.atMidnight
    \/ date.day > MAX_DEADLINE_DAYS

InvalidUpload(upload) ==
    \/ upload.kind = "text"
    \/ upload.kind = "document" /\ upload.ext \notin AllowedExt

WizardOrder ==
    <<"WAITING_WORK_TYPE", "WAITING_SUBJECT", "WAITING_VOLUME", "WAITING_DEADLINE",
      "WAITING_FILE", "WAITING_COMMENT", "WAITING_CONTACT">>

Successor(st) ==
    IF st = END THEN WizardOrder[1]
    ELSE LET i == CHOOSE j \in DOMAIN WizardOrder : WizardOrder[j] = st
         IN  IF i = Len(WizardOrder) THEN END ELSE WizardOrder[i + 1]

\* C14: every update leaves the customer's wizard in its state, moves it to
\* the next state in the order of the questions, or ends it; and an Order is
\* stored only by the step that leaves the contact state, with the work type,
\* subject, volume, deadline, attachment and contact of that run.
C14_WizardIsLinear ==
    [][LET a == orderConv[Customer]
           b == orderConv'[Customer]
       IN  /\ b = a \/ b = Successor(a) \/ b = END
           /\ Len(db'.orders) > Len(db.orders) =>
                 LET o == db'.orders[Len(db'.orders)]
                     os == user_data[1].order_state
                 IN  /\ a = "WAITING_CONTACT"
                     /\ b = END
                     /\ o.work_type = os.work_type /\ os.work_type # None
                     /\ o.subject = os.subject /\ os.subject # <<>>
                     /\ o.volume = os.volume /\ os.volume # <<>>
                     /\ o.deadline = os.deadline /\ os.deadline # <<>>
                     /\ o.file_path = os.file_path /\ os.file_path # 0
                     /\ o.comment = os.comment
                     /\ o.contact_info # <<>>]_vars

\* The wizard ran through all its questions and the Order is stored.
C14_Witness ==
    /\ ev.h = "handle_contact"
    /\ ev.reply = "order_created"
    /\ orderConv[Customer] = END
    /\ Len(db.orders) = 1
    /\ db.orders[1].file_path # 0

\* C15: handle_deadline accepts the date 365 days ahead and moves on to the
\* attachment; it refuses a date 366 days or more ahead, every past date and
\* the current date; a text that does not parse is refused too; a refusal
\* keeps the deadline state and leaves order_state as it is.
C15_DeadlineWindow ==
    \A date \in DeadlineInputs :
       RouteText(Customer) = "handle_deadline" =>
          LET r == handle_deadline(Customer, date)
              accepted == /\ r.ret = "WAITING_FILE"
                          /\ r.ud.order_state.deadline = <<date.day>>
              refused == /\ r.ret = "WAITING_DEADLINE"
                         /\ r.ud = user_data[1]
          IN  /\ date.parses /\ date.day = MAX_DEADLINE_DAYS => accepted
              /\ date.parses /\ date.day > MAX_DEADLINE_DAYS => refused
              /\ date.parses /\ date.day <= 0 => refused
              /\ ~date.parses => refused

\* C16: when the download of a photo or a supported document fails,
\* handle_file leaves no file behind, keeps the wizard in the attachment
\* state and sets no file_path; and the attachment of every stored Order is a
\* completely downloaded file.
C16_FailedDownloadLeavesNothing ==
    /\ \A upload \in Uploads :
          RouteFile(Customer) = "handle_file" /\ ~InvalidUpload(upload) =>
             LET r == handle_file(Customer, upload, FALSE)
             IN  /\ r.files = files
                 /\ r.ret = "WAITING_FILE"
                 /\ r.ud.order_state.file_path = 0
                 /\ r.db = db
    /\ \A o \in DOMAIN db.orders :
          /\ db.orders[o].file_path \in DOMAIN files
          /\ files[db.orders[o].file_path] = "complete"

\* A download failed: the wizard still awaits the attachment, no file is on
\* disk and order_state names none.
C16_Witness ==
    /\ ev.h = "handle_file"
    /\ ev.reply = "error"
    /\ orderConv[Customer] = "WAITING_FILE"
    /\ user_data[1].order_state.file_path = 0
    /\ files = <<>>

-----------------------------------------------------------------------------
(* Properties of the payment proofs on disk *)

\* C17: no partly downloaded proof file is left on disk, and the proof_file
\* of every Payment that has one names a completely downloaded file.
C17_NoPartialProofRemains ==
    /\ \A i \in DOMAIN proofs : proofs[i] = "complete"
    /\ \A p \in DOMAIN db.payments :
          db.payments[p].proof_file # 0 =>
             /\ db.payments[p].proof_file \in DOMAIN proofs
             /\ proofs[db.payments[p].proof_file] = "complete"

-----------------------------------------------------------------------------
(* Properties of the broadcast *)

\* C18: over N Users of which the sends to M raise, handle_broadcast reports
\* N - M sent and M errors, attempts every User in turn, delivers to exactly
\* the Users whose send works, and returns END without raising or storing
\* anything.
C18_BroadcastCountsEverySend ==
    \A text \in SupportTexts, failing \in SUBSET DOMAIN mem.users :
       LET r == handle_broadcast(Admin, text, TRUE, failing)
           N == Len(mem.users)
           M == Cardinality(failing)
       IN  /\ r.reply = <<"broadcast_done", N - M, M>>
           /\ broadcast(mem.users, failing).attempted = mem.users
           /\ r.msgs = {Msg(mem.users[i], "broadcast", 0, 0) :
                           i \in DOMAIN mem.users \ failing}
           /\ r.ret = END
           /\ r.db = db

\* Of three Users the first could not be reached: the two after it were sent
\* the text and the report counts two and one.
C18_Witness ==
    /\ ev.h = "handle_broadcast"
    /\ ev.caller = ADMIN_ID
    /\ Len(db.users) = 3
    /\ sent = {Msg(db.users[2], "broadcast", 0, 0), Msg(db.users[3], "broadcast", 0, 0)}
    /\ ev.reply = <<"broadcast_done", 2, 1>>

-----------------------------------------------------------------------------
(* Properties of the administrator's prompts *)

\* C19: once admin_broadcast has prompted the administrator for the text of
\* the broadcast, the dispatcher routes the administrator's next text to
\* handle_broadcast, which sends it to every known User.
C19_BroadcastTextIsRouted ==
    (ev.h = "admin_broadcast" /\ ev.caller = ADMIN_ID) =>
       /\ RouteText(Admin) = "handle_broadcast"
       /\ broadcast(mem.users, {}).attempted = mem.users

\* C20: once admin_message_response or admin_review_response has prompted
\* the administrator for the reply to a stored record, the dispatcher routes
\* the administrator's next text to the handler of that reply; for a Message
\* the text becomes its admin_response and is forwarded to its author.
C20_ReplyTextIsStoredAndForwarded ==
    /\ (/\ ev.h = "admin_message_response"
        /\ ev.caller = ADMIN_ID
        /\ query_Message(user_data[ADMIN_ID].message_id) # 0) =>
          /\ RouteText(Admin) = "handle_user_message"
          /\ \A text \in SupportTexts :
                LET r == handle_user_message(Admin, text, TRUE, TRUE)
                    m == user_data[ADMIN_ID].message_id
                IN  /\ r.db.messages[m].admin_response = text
                    /\ \E n \in r.msgs :
                          /\ n.kind = "message_response"
                          /\ n.to = TelegramIdOf(mem.messages[m].user_id)
    /\ (ev.h = "admin_review_response" /\ ev.caller = ADMIN_ID) =>
          RouteText(Admin) = "handle_review_response"

-----------------------------------------------------------------------------
(* Properties of the statistics *)

RECURSIVE SumOver(_, _)
SumOver(f, S) ==
    IF S = {} THEN 0
    ELSE LET x == CHOOSE x \in S : TRUE IN f[x] + SumOver(f, S \ {x})

CompletedPayments == {p \in DOMAIN mem.payments : mem.payments[p].status = "completed"}

\* C21: the report of admin_stats counts as many Orders as there are, its
\* counts by status add up to that total, its revenue is the sum of the
\* amounts of the completed Payments and of no other, 0 without any; and
\* admin_stats changes no record.
C21_StatsAddUp ==
    LET r == admin_stats(Admin)
        figures == r.reply[2]
    IN  /\ r.reply[1] = "stats"
        /\ figures.total_orders = Len(mem.orders)
        /\ figures.total_orders = SumOver(figures.orders_by_status, OrderStatus)
        /\ figures.total_revenue =
              SumOver([p \in DOMAIN mem.payments |-> mem.payments[p].amount],
                      CompletedPayments)
        /\ CompletedPayments = {} => figures.total_revenue = 0
        /\ r.db = db
        /\ r.mem = mem
        /\ r.ret = END

\* The report was made over an Order with two Payments, one completed and
\* one pending: the revenue is the amount of the completed one.
C21_Witness ==
    /\ ev.h = "admin_stats"
    /\ ev.caller = ADMIN_ID
    /\ Len(mem.payments) = 2
    /\ Cardinality(CompletedPayments) = 1
    /\ \E p \in CompletedPayments : ev.reply[2].total_revenue = mem.payments[p].amount
    /\ ev.reply[2].total_revenue > 0

-----------------------------------------------------------------------------
(* Properties of the Order lifecycle *)

\* C22: an Order that is cancelled stays cancelled whatever is done next, and
\* no step removes an Order from the store.
C22_CancelledIsTerminal ==
    [][/\ Len(db'.orders) >= Len(db.orders)
       /\ \A o \in DOMAIN db.orders :
             db.orders[o].status = CANCELLED => db'.orders[o].status = CANCELLED]_vars

CompletedPaymentsOf(m, o) ==
    {p \in DOMAIN m.payments :
        m.payments[p].order_id = o /\ m.payments[p].status = "completed"}

\* C23: of the Payments of an Order at most one is completed, in the
\* database and in the session, however often payment was started and
\* confirmed.
C23_OneCompletedPaymentPerOrder ==
    \A o \in OrderIds :
       /\ Cardinality(CompletedPaymentsOf(db, o)) <= 1
       /\ Cardinality(CompletedPaymentsOf(mem, o)) <= 1

\* Payment was started twice for the Order and then confirmed: the first
\* Payment is completed, the second is still pending.
C23_Witness ==
    /\ ev.h = "admin_confirm_payment"
    /\ Len(db.payments) = 2
    /\ db.payments[1].order_id = 1 /\ db.payments[2].order_id = 1
    /\ db.payments[1].status = "completed"
    /\ db.payments[2].status = "pending"
    /\ db.orders[1].status = PAID

-----------------------------------------------------------------------------
(* Properties of the Order that is active for payment *)

ActiveOrder(c) == user_data[c].current_payment_order_id

\* C24: user_data holds one Order that is active for payment; a payment
\* trigger that is accepted makes its Order the active one in place of the
\* one before, a refused trigger leaves the active one; a proof changes only
\* Payments of the active Order, and none when no Order is active.
C24_OneActiveOrderForPayment ==
    \A c \in Customers :
       /\ \A i \in OrderIds :
             LET r == handle_payment(<<c, c>>, <<"pay", str(i)>>)
             IN  IF r.ret = "WAITING_PAYMENT_PROOF"
                   THEN r.ud.current_payment_order_id = i
                   ELSE r.ud.current_payment_order_id = ActiveOrder(c)
       /\ \A f \in ProofOutcomes :
             LET r == handle_payment_proof(<<c, c>>, f[1], f[2], f[3])
             IN  /\ Len(r.db.payments) = Len(db.payments)
                 /\ \A p \in DOMAIN db.payments :
                       r.db.payments[p] # db.payments[p] =>
                          /\ ActiveOrder(c) # 0
                          /\ db.payments[p].order_id = ActiveOrder(c)

\* The customer started payment for the first Order, then for the second,
\* and sent a proof: it is attached to the Payment of the second Order.
C24_Witness ==
    /\ ev.h = "handle_payment_proof"
    /\ Len(db.payments) = 2
    /\ db.payments[1].order_id = 1 /\ db.payments[1].proof_file = 0
    /\ db.payments[2].order_id = 2 /\ db.payments[2].proof_file # 0

-----------------------------------------------------------------------------
(* Properties of who writes the price *)

\* The store m gives every Order that db holds a price that was already
\* committed or already assigned in the session: nothing in m is a new price.
AssignsNoPrice(m) ==
    \A o \in DOMAIN db.orders :
       m.orders[o].price \in {db.orders[o].price, mem.orders[o].price}

\* A completed wizard state of a customer.
\* C25: the price of an existing Order is assigned by handle_price_setting
\* only: every step of another handler (menus, accept, reject, payment
\* trigger, proof, confirmation, dropped updates) leaves each Order with a
\* price it already had, and so do a wizard completion, a support message,
\* a rejected payment and a broadcast.
C25_OnlyPriceSettingWritesPrice ==
    /\ [][ev'.h # "handle_price_setting" =>
             /\ Len(db'.orders) = Len(db.orders)
             /\ AssignsNoPrice(db')
             /\ AssignsNoPrice(mem')]_vars
    /\ [](\A c \in Customers, f \in Outcomes3 :
            LET r == finalize(<<c, c>>, CompleteOrderState, f[1], f[2], f[3])
            IN  AssignsNoPrice(r.db) /\ AssignsNoPrice(r.mem))
    /\ [](\A c \in Customers, text \in SupportTexts, sendOk \in BOOLEAN :
            LET r == handle_support_message(<<c, c>>, text, sendOk)
            IN  AssignsNoPrice(r.db) /\ AssignsNoPrice(r.mem))
    /\ [](\A i \in OrderIds, sendOk \in BOOLEAN :
            LET r == admin_reject_payment(Admin, <<"admin", "reject", "payment", str(i)>>,
                                          sendOk)
            IN  AssignsNoPrice(r.db) /\ AssignsNoPrice(r.mem))
    /\ [](\A failing \in SUBSET DOMAIN mem.users :
            LET r == handle_broadcast(Admin, <<"h", "i">>, TRUE, failing)
            IN  AssignsNoPrice(r.db) /\ AssignsNoPrice(r.mem))

\* The administrator set the price, the customer started payment and the
\* payment was confirmed: the Order still has the administrator's price.
C25_Witness ==
    /\ ev.h = "admin_confirm_payment"
    /\ Len(db.payments) >= 1
    /\ db.orders[1].status = PAID
    /\ db.orders[1].price = 600
    /\ db.payments[1].amount = 600

-----------------------------------------------------------------------------
(* Properties of failures inside handlers *)

\* C26: no handler raises out of its callback: whatever update the
\* dispatcher hands to a handler, the handler returns.
C26_NoHandlerRaises == ev.ret # "raised"

\* C27: a failed commit leaves nothing of its handler behind: a
\* handle_contact step that persists no Order persists no User either, and
\* after a handle_price_setting step the session holds no Order change that
\* the database does not hold.
C27_NoPartialCommit ==
    [][/\ (ev'.h = "handle_contact" /\ Len(db'.orders) = Len(db.orders))
            => db'.users = db.users
       /\ ev'.h = "handle_price_setting" => mem'.orders = db'.orders]_vars

-----------------------------------------------------------------------------
(* Properties of the Order lifecycle *)

\* C28: every status of the lifecycle is reached through the bot's
\* operations: the pending Order is at some time paid, at some time
\* in_progress, at some time completed and at some time cancelled.
C28_EveryStatusIsReached ==
    \A status \in {PAID, IN_PROGRESS, COMPLETED, CANCELLED} :
       <>(db.orders[1].status = status)

-----------------------------------------------------------------------------
(* Properties of the User table *)

NoDuplicateUsers(m) == \A i, j \in DOMAIN m.users : m.users[i] = m.users[j] => i = j

\* C29: whatever wizard completions and support messages the customers
\* send, no two User rows carry the same telegram id, and a step neither
\* changes nor removes the telegram id of a User that exists.
C29_OneUserPerTelegramId ==
    /\ [](NoDuplicateUsers(db) /\ NoDuplicateUsers(mem))
    /\ [][IsPrefix(db.users, db'.users) /\ IsPrefix(mem.users, mem'.users)]_vars

\* A customer with a stored Order has sent a text and is still the one User
\* of that telegram id; the other customer has a User too.
C29_Witness ==
    /\ ev.h = "handle_support_message"
    /\ ev.reply = "message_forwarded"
    /\ Len(db.orders) = 1
    /\ Len(db.messages) = 1
    /\ db.messages[1].user_id = db.orders[1].user_id
    /\ Len(db.users) = 2
    /\ db.users[db.messages[1].user_id] = ev.caller

-----------------------------------------------------------------------------
(* Properties of a refused price *)

\* Texts that are no number, and numbers that are not greater than zero.
InvalidPriceTexts == {"abc", "0", "-5", "nan"}

\* C30: while the administrator is asked for a price, a text that is no
\* number or no positive number keeps them asked, sends nothing to the
\* customer and changes neither an Order's price nor the stored
\* current_order_id; observed on the handler's result for every such text and
\* on every step that refused one.
C30_InvalidPriceChangesNothing ==
    /\ [](adminConv[Admin] = "WAITING_PRICE" =>
            \A text \in InvalidPriceTexts, f \in Outcomes3 :
               LET r == handle_price_setting(Admin, text, f[1], f[2], f[3])
               IN  /\ r.ret = "WAITING_PRICE"
                   /\ r.msgs = {}
                   /\ r.db = db
                   /\ r.mem = mem
                   /\ r.or_mem = {}
                   /\ r.ud.current_order_id = user_data[ADMIN_ID].current_order_id)
    /\ [][(ev'.h = "handle_price_setting" /\ ev'.reply \in {"bad_amount", "must_be_positive"})
            => /\ adminConv[Admin] = "WAITING_PRICE"
               /\ adminConv'[Admin] = "WAITING_PRICE"
               /\ sent' = {}
               /\ db'.orders = db.orders
               /\ mem'.orders = mem.orders
               /\ user_data'[ADMIN_ID].current_order_id = user_data[ADMIN_ID].current_order_id]_vars

-----------------------------------------------------------------------------
(* Properties of paid Orders *)

\* C31: an Order with status paid has a Payment of its own with status
\* completed.
C31_PaidOrderHasCompletedPayment ==
    \A o \in DOMAIN db.orders :
       db.orders[o].status = PAID =>
          \E p \in DOMAIN db.payments :
             db.payments[p].order_id = o /\ db.payments[p].status = "completed"

\* The Payment the most recent payment trigger for Order o created.
LatestPaymentOf(m, o) ==
    CHOOSE p \in DOMAIN m.payments :
       /\ m.payments[p].order_id = o
       /\ \A q \in DOMAIN m.payments : m.payments[q].order_id = o => q <= p

\* C32: a proof is attached to the Payment of the customer's most recent
\* payment trigger for the Order, and no Payment of a paid Order stays
\* pending without a proof.
C32_ProofGoesToLatestPayment ==
    /\ [][ev'.h = "handle_payment_proof" =>
            \A p \in DOMAIN db.payments :
               db'.payments[p].proof_file # db.payments[p].proof_file
                  => p = LatestPaymentOf(db, db.payments[p].order_id)]_vars
    /\ [](\A p \in DOMAIN db.payments :
            db.orders[db.payments[p].order_id].status = PAID
               => ~(db.payments[p].status = "pending" /\ db.payments[p].proof_file = 0))

-----------------------------------------------------------------------------
(* Properties of support messages *)

\* C33: a text of a customer whose wizard is not running is stored as a
\* Message, and is forwarded to the administrator unless the handler reports
\* an error.
C33_TextOutsideWizardIsStored ==
    [][(ev'.h = "handle_support_message" /\ ev'.caller \in Customers)
         => /\ orderConv[<<ev'.caller, ev'.caller>>] = END
            /\ Len(db'.messages) = Len(db.messages) + 1
            /\ ev'.reply \in {"message_forwarded", "error"}
            /\ ev'.reply = "message_forwarded"
                  => \E m \in sent' : m.to = ADMIN_ID /\ m.kind = "support_message"]_vars

-----------------------------------------------------------------------------
(* Properties of what handle_contact reports *)

\* C34: a handle_contact step that reports a failed creation has stored no
\* Order, and one that has stored an Order has sent the administrator its
\* announcement.
C34_ReportMatchesStore ==
    [][ev'.h = "handle_contact" =>
         /\ ev'.reply = "create_failed" => Len(db'.orders) = Len(db.orders)
         /\ Len(db'.orders) > Len(db.orders)
               => \E m \in sent' : m.to = ADMIN_ID /\ m.kind = "new_order"]_vars

-----------------------------------------------------------------------------
(* Properties of the amount of a Payment *)

\* The Payments a step completes.
Completes(p) == db.payments[p].status # "completed" /\ db'.payments[p].status = "completed"

\* C35: a Payment that a confirmation completes carries the price its Order
\* has at that time, and the revenue of the stats grows by that price.
C35_AmountIsPriceAtConfirmation ==
    [][\A p \in DOMAIN db.payments :
          Completes(p) =>
             /\ db'.payments[p].amount = db'.orders[db.payments[p].order_id].price
             /\ total_revenue(db'.payments) =
                   total_revenue(db.payments) + db'.orders[db.payments[p].order_id].price]_vars

-----------------------------------------------------------------------------
(* Properties of accepting an Order that is no longer pending *)

\* C36: no step changes the price of an Order whose status is not pending,
\* and no step sends its customer a price with the payment trigger.
C36_PriceOnlyForPendingOrders ==
    [][\A o \in DOMAIN db.orders :
          db.orders[o].status # PENDING =>
             /\ db'.orders[o].price = db.orders[o].price
             /\ ~\E m \in sent' : m.kind = "price" /\ m.order = o]_vars

-----------------------------------------------------------------------------
(* Properties of the Order a price is applied to *)

\* C37: the price the administrator types goes to the Order whose accept
\* control they pressed last: a price-setting step notifies the customer of
\* no other Order and changes the price of no other Order.
C37_PriceGoesToLastAccepted ==
    [][ev'.h = "handle_price_setting" =>
         /\ \A m \in sent' : m.kind = "price" => m.order = hist.accepted
         /\ \A o \in DOMAIN db.orders :
               db'.orders[o].price # db.orders[o].price => o = hist.accepted]_vars

-----------------------------------------------------------------------------
(* Properties of wizards of one customer in two chats *)

\* C38: while the wizard of one chat runs, a wizard that starts or finishes
\* in the customer's other chat leaves the fields collected so far as they
\* are.
C38_ChatsKeepTheirOwnFields ==
    [][\A k, j \in ChatKeys :
          (/\ k # j
           /\ orderConv[k] # END
           /\ ev'.h \in {"create_order", "handle_contact"}
           /\ orderConv'[j] # orderConv[j])
          => /\ user_data'[k[2]].has_order_state = user_data[k[2]].has_order_state
             /\ user_data'[k[2]].order_state = user_data[k[2]].order_state]_vars

-----------------------------------------------------------------------------
(* Properties of who may pay for an Order *)

\* The telegram id of the User the Order belongs to.
OwnerOf(o) == db.users[db.orders[o].user_id]

\* C39: handle_payment and handle_payment_proof act for the owner of the
\* Order only: a Payment such a step creates, a proof reference it sets and a
\* message it sends to the administrator belong to an Order of the caller,
\* and a payment trigger of any other caller changes and sends nothing.
C39_OnlyTheOwnerPays ==
    /\ [][ev'.h \in {"handle_payment", "handle_payment_proof"} =>
            /\ \A p \in DOMAIN db'.payments :
                  (\/ p \notin DOMAIN db.payments
                   \/ db'.payments[p].proof_file # db.payments[p].proof_file)
                  => OwnerOf(db'.payments[p].order_id) = ev'.caller
            /\ \A m \in sent' : m.to = ADMIN_ID => OwnerOf(m.order) = ev'.caller]_vars
    /\ [](\A c \in Callers, i \in DOMAIN db.orders :
            OwnerOf(i) # c =>
               LET r == handle_payment(<<c, c>>, <<"pay", str(i)>>)
               IN  /\ r.db = db
                   /\ r.mem = mem
                   /\ r.msgs = {}
                   /\ r.ud = user_data[c]
                   /\ r.proofs = proofs)

\* After the owner has started payment for the Order, another customer
\* presses its pay button and is refused.
C39_Witness ==
    /\ ev.h = "handle_payment"
    /\ ev.caller = 2
    /\ ev.reply = "no_access_to_order"
    /\ OwnerOf(1) = 1
    /\ Len(db.payments) >= 1
    /\ \A p \in DOMAIN db.payments : db.payments[p].user_id = 1

====
